---- MODULE Spec2Model ----
(***************************************************************************)
(* Model of the QR composer of src/utils/qrWithLogo.js:                    *)
(* generateCustomQR, generateQRWithLogo and generateQRWithMonogram, with   *)
(* the QR encoder, the HTTP client, the filesystem and the image library   *)
(* as an environment whose calls are logged and whose outcomes are chosen  *)
(* nondeterministically.                                                   *)
(*                                                                         *)
(* An optional JavaScript value is the empty tuple when it is undefined    *)
(* and the one-element tuple <<v>> when it is supplied.  A JavaScript      *)
(* string the code inspects character by character is a tuple of           *)
(* one-character strings.                                                  *)
(***************************************************************************)
EXTENDS Integers, Sequences, FiniteSets, TLC

VARIABLES
  url,            \* argument url of the invocation
  options,        \* argument options: [width, margin, color, errorCorrectionLevel]
  centerType,     \* argument centerType (optional)
  centerOptions,  \* argument centerOptions
  pc,             \* position of the invocation (its next await)
  qrCodeBuffer,   \* local qrCodeBuffer
  logoSourceBuffer, \* local logoSourceBuffer
  logoBuffer,     \* local logoBuffer (resized logo)
  overlay,        \* local logoWithBackground / monogramBuffer
  encoderCalls,   \* log of QRCode.toBuffer calls: arguments and outcome
  netOps,         \* log of fetch calls
  fsOps,          \* log of filesystem calls
  compositeOps,   \* log of sharp composite calls
  thrown,         \* errors raised by the steps of the invocation, in order
  result,         \* settlement of the promise the invocation returned
  text,           \* string under escaping (monogram text)
  xpc,            \* position inside the replace chain
  original        \* the monogram string the replace chain started from

VARIABLES
  calls,          \* number of the invocation under way (1 or 2) when the composer is called twice
  previous,       \* what the first of two invocations in a row returned and met
  active,         \* the invocation running now when two invocations interleave
  parked          \* the invocation suspended at an await: its arguments, locals and logs

VARIABLES
  albums,         \* the Album collection: the document of album id i at index i
  media,          \* the Media collection, in order of creation
  up,             \* the media upload request in flight: what it carries, its position, its locals
  lastOp,         \* the album request served last: route, requester, body and answer
  mreqs           \* the requests for single Media documents, in order of arrival: position, loaded document, answer

VARIABLES
  invitation,     \* the stored Invitation document the requests are about
  reqs,           \* the public requests for it, in order of arrival: body, position, loaded document, answer
  retry,          \* the withRetry call under way: attempts, waits, clock and settlement
  limiter,        \* the shared service instance and the callers inside rateLimit()
  driveCall       \* the uploadFile call under way: its two withRetry frames and the files it made

composerVars == <<url, options, centerType, centerOptions, pc, qrCodeBuffer,
                  logoSourceBuffer, logoBuffer, overlay, encoderCalls, netOps,
                  fsOps, compositeOps, thrown, result>>
escapeVars == <<text, xpc, original>>
pairVars == <<calls, previous, active, parked>>
galleryVars == <<albums, media, up, lastOp, mreqs>>
rsvpVars == <<invitation, reqs>>
retryVars == <<retry, limiter, driveCall>>
sideVars == <<galleryVars, rsvpVars, retryVars>>
otherVars == <<pairVars, sideVars>>
vars == <<composerVars, escapeVars, otherVars>>

----------------------------------------------------------------------------
(* Bounds of the model *)

MaxWidthSteps == 4
MaxMargin == 1
MaxLen == 4

----------------------------------------------------------------------------
(* JavaScript values *)

Undefined == <<>>
Some(v) == <<v>>
IsUndefined(x) == x = <<>>

\* destructuring default / default parameter: only undefined takes the default
DestructureDefault(x, d) == IF IsUndefined(x) THEN d ELSE x[1]

\* x || d on a number: undefined and 0 are falsy
OrDefaultNumber(x, d) == IF IsUndefined(x) \/ x[1] = 0 THEN d ELSE x[1]

\* x || d on an object or a non-empty string: only undefined is falsy
OrDefaultTruthy(x, d) == IF IsUndefined(x) THEN d ELSE x[1]

\* Math.floor(width * p / 100) for the percentages 20, 5, 15 of the code
MathFloorPercent(width, p) == (width * p) \div 100

\* Math.round(n / 2) in the place of Math.floor(n / 2)
MathRoundHalf(n) == (n + 1) \div 2

\* Math.floor(n / 2); \div rounds towards minus infinity as Math.floor does
MathFloorHalf(n) == n \div 2

DefaultWidth == 300
DefaultMargin == 2
DefaultColor == [dark |-> "#000000", light |-> "#FFFFFF"]
DefaultLevel == "M"
DefaultMonogram == <<"M", "&", "E">>
DefaultBorderRadius == 8

----------------------------------------------------------------------------
(* Values handed around by the composer *)

NoValue == [kind |-> "none"]
Err(name) == [kind |-> "error", name |-> name]

Pending == [status |-> "pending", value |-> NoValue]
Resolved(v) == [status |-> "resolved", value |-> v]
Rejected(e) == [status |-> "rejected", value |-> e]

\* the argument object of QRCode.toBuffer
EncoderArgs(c, w, m, l) ==
  [color |-> c, width |-> w, margin |-> m, errorCorrectionLevel |-> l, type |-> "png"]

\* a PNG that also carries a value drawn anew on every call (a uuid, a timestamp)
QRImageStamped(u, args) == [kind |-> "qr", url |-> u, args |-> args, stamp |-> calls]

\* the PNG the encoder produces for a text and an argument object
QRImage(u, args) == [kind |-> "qr", url |-> u, args |-> args]

----------------------------------------------------------------------------
(* Strings: monogram.replace(/&/g, '&amp;').replace(/</g, '&lt;').replace(/>/g, '&gt;') *)

AmpEntity == <<"&", "a", "m", "p", ";">>
LtEntity == <<"&", "l", "t", ";">>
GtEntity == <<"&", "g", "t", ";">>

\* String.prototype.replace with a one-character global pattern
RECURSIVE ReplaceAll(_, _, _)
ReplaceAll(s, c, r) ==
  IF s = <<>> THEN <<>>
  ELSE (IF Head(s) = c THEN r ELSE <<Head(s)>>) \o ReplaceAll(Tail(s), c, r)

\* the first replace of the chain, as a bug that leaves '&' alone
ReplaceAmpSkipped(s) == s

ReplaceAmp(s) == ReplaceAll(s, "&", AmpEntity)
ReplaceLt(s) == ReplaceAll(s, "<", LtEntity)
ReplaceGt(s) == ReplaceAll(s, ">", GtEntity)

\* the whole chain of line 178
EscapeXml(s) == ReplaceGt(ReplaceLt(ReplaceAmp(s)))

----------------------------------------------------------------------------
(* Logo source resolution *)

\* the regular expression without the i flag
RegexHttpCaseSensitive(s) ==
  /\ Len(s) >= 7
  /\ SubSeq(s, 1, 4) = <<"h", "t", "t", "p">>
  /\ \/ SubSeq(s, 5, 7) = <<":", "/", "/">>
     \/ Len(s) >= 8 /\ s[5] = "s" /\ SubSeq(s, 6, 8) = <<":", "/", "/">>

\* /^https?:\/\//i.test(logoPath)
RegexHttp(s) ==
  /\ Len(s) >= 7
  /\ s[1] \in {"h", "H"}
  /\ s[2] \in {"t", "T"}
  /\ s[3] \in {"t", "T"}
  /\ s[4] \in {"p", "P"}
  /\ \/ SubSeq(s, 5, 7) = <<":", "/", "/">>
     \/ Len(s) >= 8 /\ s[5] \in {"s", "S"} /\ SubSeq(s, 6, 8) = <<":", "/", "/">>

UploadsPrefix == <<"/", "u", "p", "l", "o", "a", "d", "s", "/", "l", "o", "g", "o", "s", "/">>

\* logoPath.startsWith('/uploads/logos/')
StartsWithUploads(s) ==
  Len(s) >= Len(UploadsPrefix) /\ SubSeq(s, 1, Len(UploadsPrefix)) = UploadsPrefix

\* path.join(__dirname, '..', logoPath): the parent of the module's directory
ParentDir == <<"/", "a", "p", "p">>
ActualLogoPath(s) == IF StartsWithUploads(s) THEN ParentDir \o s ELSE s

\* !logoPath: undefined (hence the default null) and the empty string are falsy
NoLogoPath(lp) == IsUndefined(lp) \/ lp[1] = <<>>

----------------------------------------------------------------------------
(* Arguments of an invocation *)

Urls == {"https://example.com/i/abc123", "x"}
\* pixel widths 5, 10, 15, ...: multiples of 20 and widths the percentages do not divide
Widths == {5 * k : k \in 1..MaxWidthSteps}
Colors == {[dark |-> "#112233", light |-> "#FFEEDD"]}
Levels == {"H"}

Optional(S) == {Undefined} \cup {Some(v) : v \in S}

OptionsSet ==
  [width : Optional(Widths), margin : Optional(0..MaxMargin),
   color : Optional(Colors), errorCorrectionLevel : Optional(Levels)]

SrcHttp == <<"h", "t", "t", "p", ":", "/", "/", "c">>
SrcHttpsUpper == <<"H", "T", "T", "P", "S", ":", "/", "/", "c">>
SrcHttpOneSlash == <<"h", "t", "t", "p", ":", "/", "c">>
SrcUploads == UploadsPrefix \o <<"a">>
SrcLocal == <<"l", ".", "p", "n", "g">>
LogoSources == {<<>>, SrcHttp, SrcHttpsUpper, SrcHttpOneSlash, SrcUploads, SrcLocal}

Monograms == {<<"A", "&", "B">>, <<"<", "&", "l", "t", ";", ">">>}

NoCenterOptions ==
  [logoPath |-> Undefined, logoSize |-> Undefined, logoMargin |-> Undefined,
   logoBackground |-> Undefined, monogram |-> Undefined, fontSize |-> Undefined,
   padding |-> Undefined, backgroundColor |-> Undefined]

\* the options the logo branch reads
LogoCenterOptions ==
  {[NoCenterOptions EXCEPT !.logoPath = lp, !.logoSize = ls, !.logoMargin = lm,
                           !.logoBackground = lb] :
     lp \in Optional(LogoSources), ls \in Optional({4}), lm \in Optional({1}),
     lb \in Optional({"#FF0000"})}

\* the options the monogram branch reads
MonogramCenterOptions ==
  {[NoCenterOptions EXCEPT !.monogram = mo, !.fontSize = fs, !.padding = pd,
                           !.backgroundColor = bg] :
     mo \in Optional(Monograms), fs \in Optional({6}), pd \in Optional({2}),
     bg \in Optional({"#FF0000"})}

CenterOptionsFor(ct) ==
  IF ct = Some("logo") THEN LogoCenterOptions
  ELSE IF ct = Some("monogram") THEN MonogramCenterOptions
  ELSE {NoCenterOptions, [NoCenterOptions EXCEPT !.logoPath = Some(SrcHttp)]}

CenterTypes == Optional({"none", "logo", "monogram"})

----------------------------------------------------------------------------
(* Destructured locals of generateQRWithLogo and generateQRWithMonogram *)

width == DestructureDefault(options.width, DefaultWidth)
margin == DestructureDefault(options.margin, DefaultMargin)
color == DestructureDefault(options.color, DefaultColor)
errorCorrectionLevel == DestructureDefault(options.errorCorrectionLevel, DefaultLevel)

logoSize == DestructureDefault(centerOptions.logoSize, MathFloorPercent(width, 20))
logoMargin == DestructureDefault(centerOptions.logoMargin, MathFloorPercent(width, 5))
logoBackground == DestructureDefault(centerOptions.logoBackground, "#FFFFFF")

fontSize == DestructureDefault(centerOptions.fontSize, MathFloorPercent(width, 15))
padding == DestructureDefault(centerOptions.padding, MathFloorPercent(width, 5))
backgroundColor == DestructureDefault(centerOptions.backgroundColor, "#FFFFFF")
monogram == DestructureDefault(centerOptions.monogram, DefaultMonogram)

\* { r: 255, g: 255, b: 255, alpha: 1 }
OpaqueWhite == [r |-> 255, g |-> 255, b |-> 255, alpha |-> 1]

----------------------------------------------------------------------------
(* Catch handlers *)

\* a handler that falls back to the bare code instead of rethrowing
LogoCatchFallback(error) == Resolved(qrCodeBuffer)

\* catch (e) { console.error(...); throw e; } around the logo source
LoadCatch(e) == e

\* catch (error) { console.error(...); throw error; } of generateQRWithLogo
LogoCatch(error) == Rejected(error)

\* catch (error) { console.error(...); throw error; } of generateQRWithMonogram
MonogramCatch(error) == Rejected(error)

----------------------------------------------------------------------------
(* Initial state: an invocation about to start *)

EscapeIdle == text = <<>> /\ xpc = "idle" /\ original = <<>>

\* a first invocation and no other one suspended
PairIdle == calls = 1 /\ previous = <<>> /\ active = 1 /\ parked = <<>>

\* the upload request slot before a request arrives
NoUpload ==
  [pc |-> "idle", route |-> "guest", user |-> "anonymous", sent |-> <<>>,
   uploadedBy |-> <<>>, qrCode |-> 0, albumId |-> 0,
   error |-> "", files |-> <<>>, album |-> <<>>, idx |-> 0,
   attempts |-> <<>>, uploadedMedia |-> <<>>, count |-> 0, res |-> 0]

\* no album, no media, no upload request and no album request so far
GalleryIdle ==
  /\ albums = <<>>
  /\ media = <<>>
  /\ mreqs = <<>>
  /\ up = NoUpload
  /\ lastOp = <<>>

\* an invitation as POST /invitations leaves it: the schema defaults
NewInvitation ==
  [isActive |-> TRUE, isOpened |-> FALSE, openedBy |-> <<>>,
   status |-> "pending", attendeeCount |-> 1, guestNames |-> <<>>,
   email |-> <<>>, phone |-> <<>>, respondedBy |-> <<>>, v |-> 0]

RsvpIdle == invitation = NewInvitation /\ reqs = <<>>

\* withRetry before it is called
NoRetry ==
  [pc |-> "idle", outcomes |-> <<>>, retryCount |-> 0, invocations |-> <<>>,
   waits |-> <<>>, now |-> 0, lastRequestTime |-> 0, result |-> <<>>]

\* the service instance after its constructor, nobody calling
NoLimiter ==
  [now |-> 0, lastRequestTime |-> 0, callers |-> <<>>]

\* uploadFile before it is called
NoDriveCall ==
  [pc |-> "idle", isPublic |-> TRUE, outer |-> 0, inner |-> 0, created |-> 0,
   requests |-> 0, now |-> 0, lastRequestTime |-> 0, result |-> <<>>]

RetryIdle == retry = NoRetry /\ limiter = NoLimiter /\ driveCall = NoDriveCall

SideIdle == GalleryIdle /\ RsvpIdle /\ RetryIdle

OtherIdle == PairIdle /\ SideIdle

Init ==
  /\ url \in Urls
  /\ options \in OptionsSet
  /\ centerType \in CenterTypes
  /\ centerOptions \in CenterOptionsFor(centerType)
  /\ pc = "call"
  /\ qrCodeBuffer = NoValue
  /\ logoSourceBuffer = NoValue
  /\ logoBuffer = NoValue
  /\ overlay = NoValue
  /\ encoderCalls = <<>>
  /\ netOps = <<>>
  /\ fsOps = <<>>
  /\ compositeOps = <<>>
  /\ thrown = <<>>
  /\ result = Pending
  /\ EscapeIdle
  /\ OtherIdle

----------------------------------------------------------------------------
(* generateCustomQR, case 'none' and default (lines 218-226) *)

invocation == <<url, options, centerType, centerOptions>>

NoneArgs ==
  EncoderArgs(OrDefaultTruthy(options.color, DefaultColor),
              OrDefaultNumber(options.width, DefaultWidth),
              OrDefaultNumber(options.margin, DefaultMargin),
              OrDefaultTruthy(options.errorCorrectionLevel, DefaultLevel))

\* the branch as a bug that re-encodes the encoder's PNG through the image library
GenerateCustomQRNoneReencoded ==
  /\ pc = "call"
  /\ DestructureDefault(centerType, "none") \notin {"logo", "monogram"}
  /\ \E ok \in BOOLEAN :
       LET img == QRImage(url, NoneArgs)
           ret == IF ok THEN img ELSE Err("EncodingError")
       IN /\ encoderCalls' = Append(encoderCalls, [text |-> url, args |-> NoneArgs, returned |-> ret])
          /\ thrown' = IF ok THEN thrown ELSE Append(thrown, ret)
          /\ result' = IF ok THEN Resolved([kind |-> "reencoded", from |-> img]) ELSE Rejected(ret)
  /\ pc' = "done"
  /\ UNCHANGED <<invocation, qrCodeBuffer, logoSourceBuffer, logoBuffer, overlay, netOps,
                 fsOps, compositeOps, escapeVars, otherVars>>

GenerateCustomQRNone ==
  /\ pc = "call"
  /\ DestructureDefault(centerType, "none") \notin {"logo", "monogram"}
  /\ \E ok \in BOOLEAN :
       LET ret == IF ok THEN QRImage(url, NoneArgs) ELSE Err("EncodingError")
       IN /\ encoderCalls' = Append(encoderCalls, [text |-> url, args |-> NoneArgs, returned |-> ret])
          /\ thrown' = IF ok THEN thrown ELSE Append(thrown, ret)
          /\ result' = IF ok THEN Resolved(ret) ELSE Rejected(ret)
  /\ pc' = "done"
  /\ UNCHANGED <<invocation, qrCodeBuffer, logoSourceBuffer, logoBuffer, overlay, netOps,
                 fsOps, compositeOps, escapeVars, otherVars>>

----------------------------------------------------------------------------
(* generateQRWithLogo (lines 15-122), entered from case 'logo' (line 215) *)

DestructuredArgs == EncoderArgs(color, width, margin, errorCorrectionLevel)

\* lines 32-43: await QRCode.toBuffer, then the early return without a logo
LogoEncode ==
  /\ pc = "call"
  /\ centerType = Some("logo")
  /\ \E ok \in BOOLEAN :
       LET ret == IF ok THEN QRImage(url, DestructuredArgs) ELSE Err("EncodingError")
       IN /\ encoderCalls' = Append(encoderCalls,
                                    [text |-> url, args |-> DestructuredArgs, returned |-> ret])
          /\ IF ok
             THEN /\ qrCodeBuffer' = ret
                  /\ thrown' = thrown
                  /\ IF NoLogoPath(centerOptions.logoPath)
                     THEN result' = Resolved(ret) /\ pc' = "done"
                     ELSE result' = result /\ pc' = "load"
             ELSE /\ qrCodeBuffer' = qrCodeBuffer
                  /\ thrown' = Append(thrown, ret)
                  /\ result' = LogoCatch(ret)
                  /\ pc' = "done"
  /\ UNCHANGED <<invocation, logoSourceBuffer, logoBuffer, overlay, netOps, fsOps,
                 compositeOps, escapeVars, otherVars>>

FetchOutcomes == {"ok", "status", "network", "body"}

\* the remote branch as a bug that fetches a second time after a failure
LogoFetchRetrying ==
  /\ pc = "load"
  /\ RegexHttp(centerOptions.logoPath[1])
  /\ \E o1 \in FetchOutcomes, o2 \in FetchOutcomes :
       LET src == centerOptions.logoPath[1]
           e == Err("LogoFetchError")
           ops == IF o1 = "ok" THEN <<[op |-> "fetch", url |-> src, outcome |-> o1]>>
                  ELSE <<[op |-> "fetch", url |-> src, outcome |-> o1],
                         [op |-> "fetch", url |-> src, outcome |-> o2]>>
           ok == o1 = "ok" \/ o2 = "ok"
       IN /\ netOps' = netOps \o ops
          /\ IF ok
             THEN /\ logoSourceBuffer' = [kind |-> "bytes", source |-> src]
                  /\ UNCHANGED <<thrown, result>>
                  /\ pc' = "resize"
             ELSE /\ thrown' = Append(thrown, e)
                  /\ result' = LogoCatch(LoadCatch(e))
                  /\ pc' = "done"
                  /\ UNCHANGED logoSourceBuffer
  /\ UNCHANGED <<invocation, qrCodeBuffer, logoBuffer, overlay, encoderCalls, fsOps,
                 compositeOps, escapeVars, otherVars>>

\* lines 49-55: fetch, response.ok, response.arrayBuffer
LogoFetch ==
  /\ pc = "load"
  /\ RegexHttp(centerOptions.logoPath[1])
  /\ \E outcome \in FetchOutcomes :
       LET src == centerOptions.logoPath[1]
           e == Err("LogoFetchError")
       IN /\ netOps' = Append(netOps, [op |-> "fetch", url |-> src, outcome |-> outcome])
          /\ IF outcome = "ok"
             THEN /\ logoSourceBuffer' = [kind |-> "bytes", source |-> src]
                  /\ UNCHANGED <<thrown, result>>
                  /\ pc' = "resize"
             ELSE /\ thrown' = Append(thrown, e)
                  /\ result' = LogoCatch(LoadCatch(e))
                  /\ pc' = "done"
                  /\ UNCHANGED logoSourceBuffer
  /\ UNCHANGED <<invocation, qrCodeBuffer, logoBuffer, overlay, encoderCalls, fsOps,
                 compositeOps, escapeVars, otherVars>>

ReadOutcomes == {"ok", "absent", "unreadable"}

\* lines 57-66: path rewrite, fs.existsSync, fs.readFileSync
LogoReadLocal ==
  /\ pc = "load"
  /\ ~RegexHttp(centerOptions.logoPath[1])
  /\ \E outcome \in ReadOutcomes :
       LET src == centerOptions.logoPath[1]
           actualLogoPath == ActualLogoPath(src)
           exists == [op |-> "existsSync", path |-> actualLogoPath,
                      outcome |-> IF outcome = "absent" THEN "false" ELSE "true"]
           read == [op |-> "readFileSync", path |-> actualLogoPath, outcome |-> outcome]
           e == IF outcome = "absent" THEN Err("LogoNotFoundError") ELSE Err("ReadError")
       IN /\ fsOps' = IF outcome = "absent" THEN Append(fsOps, exists)
                      ELSE fsOps \o <<exists, read>>
          /\ IF outcome = "ok"
             THEN /\ logoSourceBuffer' = [kind |-> "bytes", source |-> actualLogoPath]
                  /\ UNCHANGED <<thrown, result>>
                  /\ pc' = "resize"
             ELSE /\ thrown' = Append(thrown, e)
                  /\ result' = LogoCatch(LoadCatch(e))
                  /\ pc' = "done"
                  /\ UNCHANGED logoSourceBuffer
  /\ UNCHANGED <<invocation, qrCodeBuffer, logoBuffer, overlay, encoderCalls, netOps,
                 compositeOps, escapeVars, otherVars>>

\* lines 74-80: sharp(logoSourceBuffer).resize(logoSize, logoSize, contain).png()
LogoResize ==
  /\ pc = "resize"
  /\ \E ok \in BOOLEAN :
       IF ok
       THEN /\ logoBuffer' = [kind |-> "resized", from |-> logoSourceBuffer,
                              side |-> logoSize, fit |-> "contain"]
            /\ UNCHANGED <<thrown, result>>
            /\ pc' = "matte"
       ELSE /\ thrown' = Append(thrown, Err("ImageError"))
            /\ result' = LogoCatch(Err("ImageError"))
            /\ pc' = "done"
            /\ UNCHANGED logoBuffer
  /\ UNCHANGED <<invocation, qrCodeBuffer, logoSourceBuffer, overlay, encoderCalls, netOps,
                 fsOps, compositeOps, escapeVars, otherVars>>

\* lines 83-97: the square canvas and the logo composited onto it
LogoMatte ==
  /\ pc = "matte"
  /\ \E ok \in BOOLEAN :
       LET canvas == [kind |-> "canvas", side |-> logoSize + (logoMargin * 2),
                      background |-> OpaqueWhite]
           op == [base |-> canvas, input |-> logoBuffer, top |-> logoMargin,
                  left |-> logoMargin]
       IN IF ok
          THEN /\ compositeOps' = Append(compositeOps, op)
               /\ overlay' = [kind |-> "composite", side |-> canvas.side, op |-> op]
               /\ UNCHANGED <<thrown, result>>
               /\ pc' = "overlay"
          ELSE /\ thrown' = Append(thrown, Err("ImageError"))
               /\ result' = LogoCatch(Err("ImageError"))
               /\ pc' = "done"
               /\ UNCHANGED <<compositeOps, overlay>>
  /\ UNCHANGED <<invocation, qrCodeBuffer, logoSourceBuffer, logoBuffer, encoderCalls, netOps,
                 fsOps, escapeVars, otherVars>>

\* lines 100-117: centre position and the overlay onto the QR code
LogoOverlay ==
  /\ pc = "overlay"
  /\ centerType = Some("logo")
  /\ \E ok \in BOOLEAN :
       LET qrSize == width
           logoWidth == logoSize + (logoMargin * 2)
           logoHeight == logoSize + (logoMargin * 2)
           logoX == MathFloorHalf(qrSize - logoWidth)
           logoY == MathFloorHalf(qrSize - logoHeight)
           op == [base |-> qrCodeBuffer, input |-> overlay, top |-> logoY, left |-> logoX]
       IN IF ok
          THEN /\ compositeOps' = Append(compositeOps, op)
               /\ result' = Resolved([kind |-> "composite", side |-> qrSize, op |-> op])
               /\ UNCHANGED thrown
          ELSE /\ thrown' = Append(thrown, Err("ImageError"))
               /\ result' = LogoCatch(Err("ImageError"))
               /\ UNCHANGED compositeOps
  /\ pc' = "done"
  /\ UNCHANGED <<invocation, qrCodeBuffer, logoSourceBuffer, logoBuffer, overlay, encoderCalls,
                 netOps, fsOps, escapeVars, otherVars>>

----------------------------------------------------------------------------
(* generateQRWithMonogram (lines 132-202), entered from case 'monogram' (line 217) *)

\* lines 151-157: await QRCode.toBuffer
MonogramEncode ==
  /\ pc = "call"
  /\ centerType = Some("monogram")
  /\ \E ok \in BOOLEAN :
       LET ret == IF ok THEN QRImage(url, DestructuredArgs) ELSE Err("EncodingError")
       IN /\ encoderCalls' = Append(encoderCalls,
                                    [text |-> url, args |-> DestructuredArgs, returned |-> ret])
          /\ IF ok
             THEN /\ qrCodeBuffer' = ret
                  /\ UNCHANGED <<thrown, result>>
                  /\ pc' = "rasterize"
             ELSE /\ thrown' = Append(thrown, ret)
                  /\ result' = MonogramCatch(ret)
                  /\ pc' = "done"
                  /\ UNCHANGED qrCodeBuffer
  /\ UNCHANGED <<invocation, logoSourceBuffer, logoBuffer, overlay, netOps, fsOps,
                 compositeOps, escapeVars, otherVars>>

\* the container with the padding counted on one side only
containerSizeOnePadding == fontSize + padding

\* line 160
containerSize == fontSize + (padding * 2)

\* lines 165-180: the SVG markup, as its attributes and its text node
svgText ==
  [kind |-> "svg", width |-> containerSize, height |-> containerSize,
   rectFill |-> backgroundColor, rx |-> DefaultBorderRadius, ry |-> DefaultBorderRadius,
   fontSize |-> fontSize, text |-> EscapeXml(monogram)]

\* lines 160-185: container size, markup, await sharp(Buffer.from(svgText)).png()
MonogramRasterize ==
  /\ pc = "rasterize"
  /\ \E ok \in BOOLEAN :
       IF ok
       THEN /\ overlay' = [kind |-> "raster", side |-> svgText.width, from |-> svgText]
            /\ UNCHANGED <<thrown, result>>
            /\ pc' = "overlay"
       ELSE /\ thrown' = Append(thrown, Err("ImageError"))
            /\ result' = MonogramCatch(Err("ImageError"))
            /\ pc' = "done"
            /\ UNCHANGED overlay
  /\ UNCHANGED <<invocation, qrCodeBuffer, logoSourceBuffer, logoBuffer, encoderCalls,
                 netOps, fsOps, compositeOps, escapeVars, otherVars>>

\* lines 161-162 and 188-197: centre position and the overlay onto the QR code
MonogramOverlay ==
  /\ pc = "overlay"
  /\ centerType = Some("monogram")
  /\ \E ok \in BOOLEAN :
       LET containerX == MathFloorHalf(width - containerSize)
           containerY == MathFloorHalf(width - containerSize)
           op == [base |-> qrCodeBuffer, input |-> overlay, top |-> containerY,
                  left |-> containerX]
       IN IF ok
          THEN /\ compositeOps' = Append(compositeOps, op)
               /\ result' = Resolved([kind |-> "composite", side |-> width, op |-> op])
               /\ UNCHANGED thrown
          ELSE /\ thrown' = Append(thrown, Err("ImageError"))
               /\ result' = MonogramCatch(Err("ImageError"))
               /\ UNCHANGED compositeOps
  /\ pc' = "done"
  /\ UNCHANGED <<invocation, qrCodeBuffer, logoSourceBuffer, logoBuffer, overlay,
                 encoderCalls, netOps, fsOps, escapeVars, otherVars>>

----------------------------------------------------------------------------
(* The composer: one invocation of generateCustomQR *)

Next ==
  \/ GenerateCustomQRNone
  \/ LogoEncode
  \/ LogoFetch
  \/ LogoReadLocal
  \/ LogoResize
  \/ LogoMatte
  \/ LogoOverlay
  \/ MonogramEncode
  \/ MonogramRasterize
  \/ MonogramOverlay

Spec == Init /\ [][Next]_vars

----------------------------------------------------------------------------
(* The replace chain of line 178 on every string over a small alphabet *)

Alphabet == {"&", "<", ">", "l", "t", "g", ";"}

RECURSIVE StringsOfLen(_)
StringsOfLen(n) ==
  IF n = 0 THEN {<<>>}
  ELSE {Append(s, c) : s \in StringsOfLen(n - 1), c \in Alphabet}

Strings == UNION {StringsOfLen(n) : n \in 0..MaxLen}

ComposerIdle ==
  /\ url = "x"
  /\ options = [width |-> Undefined, margin |-> Undefined, color |-> Undefined,
                errorCorrectionLevel |-> Undefined]
  /\ centerType = Some("monogram")
  /\ centerOptions = NoCenterOptions
  /\ pc = "idle"
  /\ qrCodeBuffer = NoValue
  /\ logoSourceBuffer = NoValue
  /\ logoBuffer = NoValue
  /\ overlay = NoValue
  /\ encoderCalls = <<>>
  /\ netOps = <<>>
  /\ fsOps = <<>>
  /\ compositeOps = <<>>
  /\ thrown = <<>>
  /\ result = Pending

InitEscape ==
  /\ original \in Strings
  /\ text = original
  /\ xpc = "amp"
  /\ ComposerIdle
  /\ OtherIdle

\* .replace(/&/g, '&amp;')
StepReplaceAmp ==
  /\ xpc = "amp"
  /\ text' = ReplaceAmp(text)
  /\ xpc' = "lt"
  /\ UNCHANGED <<original, composerVars, otherVars>>

\* .replace(/</g, '&lt;')
StepReplaceLt ==
  /\ xpc = "lt"
  /\ text' = ReplaceLt(text)
  /\ xpc' = "gt"
  /\ UNCHANGED <<original, composerVars, otherVars>>

\* .replace(/>/g, '&gt;')
StepReplaceGt ==
  /\ xpc = "gt"
  /\ text' = ReplaceGt(text)
  /\ xpc' = "done"
  /\ UNCHANGED <<original, composerVars, otherVars>>

NextEscape == StepReplaceAmp \/ StepReplaceLt \/ StepReplaceGt

SpecEscape == InitEscape /\ [][NextEscape]_vars

----------------------------------------------------------------------------
(* Vocabulary of the properties *)

Done == pc = "done"
EffectiveType == IF centerType = <<>> THEN "none" ELSE centerType[1]
IsLogoRequest == centerType = Some("logo")
IsMonogramRequest == centerType = Some("monogram")
HasSource == centerOptions.logoPath # <<>> /\ centerOptions.logoPath[1] # <<>>
Source == centerOptions.logoPath[1]
EncoderSucceeded == \E i \in 1..Len(encoderCalls) : encoderCalls[i].returned.kind = "qr"

\* what the caller supplied for an option, the documented default when it supplied none
Supplied(x, d) == IF x = <<>> THEN d ELSE x[1]

Lower(c) ==
  CASE c = "H" -> "h" [] c = "T" -> "t" [] c = "P" -> "p" [] c = "S" -> "s" [] OTHER -> c

\* the source string begins with http:// or https://, in any letter case
HttpScheme(s) ==
  \E n \in {7, 8} :
    /\ Len(s) >= n
    /\ [i \in 1..n |-> Lower(s[i])] \in {<<"h", "t", "t", "p", ":", "/", "/">>,
                                         <<"h", "t", "t", "p", "s", ":", "/", "/">>}

----------------------------------------------------------------------------
\* C1: with centerType 'none' (or the default) the invocation makes one encoder
\* call for the url and settles with exactly what that call produced; nothing is
\* composited, fetched or read, and the invocation is over after that call.
NoneReturnsEncoderBytes ==
  (Done /\ EffectiveType = "none") =>
    /\ Len(encoderCalls) = 1
    /\ encoderCalls[1].text = url
    /\ result.value = encoderCalls[1].returned
    /\ result.status = (IF encoderCalls[1].returned.kind = "qr" THEN "resolved" ELSE "rejected")
    /\ compositeOps = <<>> /\ netOps = <<>> /\ fsOps = <<>>

NoneReturnedWitness ==
  /\ Done /\ centerType = Some("none") /\ result.status = "resolved"
  /\ options.width = Some(20) /\ result.value.kind = "qr"

\* C2: every encoder call carries the caller's width, margin, level and colours,
\* the defaults 300 / 2 / M / black on white standing in only for omitted options,
\* whichever centerType was chosen.
EncoderGetsCallerOptions ==
  \A i \in 1..Len(encoderCalls) :
    encoderCalls[i].args =
      [color |-> Supplied(options.color, DefaultColor),
       width |-> Supplied(options.width, DefaultWidth),
       margin |-> Supplied(options.margin, DefaultMargin),
       errorCorrectionLevel |-> Supplied(options.errorCorrectionLevel, DefaultLevel),
       type |-> "png"]

\* C3: an overlay of side S composited onto a base raster of width W sits at
\* left = top = floor((W - S) / 2).
OverlayCentered ==
  (Done /\ result.status = "resolved" /\ result.value.kind = "composite") =>
    LET op == result.value.op
        W == op.base.args.width
        S == op.input.side
    IN /\ op.left = op.top
       /\ 2 * op.left <= W - S
       /\ W - S < 2 * op.left + 2

OverlayCenteredWitness ==
  /\ Done /\ IsLogoRequest /\ result.status = "resolved"
  /\ result.value.kind = "composite"
  /\ result.value.op.left = -1

\* C4: a logo request never resolves with the bare code: it resolves with a
\* composite or it rejects.
LogoNeverBare ==
  (Done /\ IsLogoRequest /\ result.status = "resolved") =>
    result.value.kind = "composite"

\* C5: an http(s) source is resolved by the network alone, any other source by
\* the filesystem alone; a missing file and a failed or non-success fetch end
\* the invocation with a rejection.
SourceCapability ==
  (IsLogoRequest /\ HasSource) =>
    /\ HttpScheme(Source) => fsOps = <<>>
    /\ ~HttpScheme(Source) => netOps = <<>>
    /\ logoSourceBuffer # NoValue =>
         IF HttpScheme(Source)
         THEN Len(netOps) = 1 /\ netOps[1].url = Source /\ netOps[1].outcome = "ok"
         ELSE Len(fsOps) = 2 /\ fsOps[2].op = "readFileSync" /\ fsOps[2].outcome = "ok"
    /\ \A i \in 1..Len(netOps) :
         netOps[i].outcome # "ok" => Done /\ result.status = "rejected"
    /\ \A i \in 1..Len(fsOps) :
         fsOps[i].outcome \in {"false", "absent", "unreadable"} =>
           Done /\ result.status = "rejected"

SourceCapabilityWitness ==
  /\ Done /\ IsLogoRequest /\ HasSource /\ Source = SrcHttpsUpper
  /\ Len(netOps) = 1 /\ netOps[1].outcome = "status"
  /\ result.status = "rejected"

\* C6: an invocation in which a step failed rejects with that step's error; it
\* never resolves, and a resolved invocation had no failing step.
FailureRejects ==
  /\ thrown # <<>> => Done /\ Len(thrown) = 1 /\ result = Rejected(thrown[1])
  /\ result.status = "resolved" => thrown = <<>>
  /\ (\E i \in 1..Len(encoderCalls) : encoderCalls[i].returned.kind = "error") =>
       result.status = "rejected"
  /\ (\E i \in 1..Len(netOps) : netOps[i].outcome # "ok") => result.status = "rejected"
  /\ (\E i \in 1..Len(fsOps) : fsOps[i].outcome \in {"false", "absent", "unreadable"}) =>
       result.status = "rejected"

FailureRejectsWitness ==
  /\ Done /\ IsLogoRequest /\ result = Rejected(Err("ImageError"))
  /\ Len(compositeOps) = 1 /\ qrCodeBuffer # NoValue

\* the colours the logo options of the model carry, as RGBA
Rgba(hex) ==
  CASE hex = "#FF0000" -> [r |-> 255, g |-> 0, b |-> 0, alpha |-> 1]
    [] OTHER -> [r |-> 255, g |-> 255, b |-> 255, alpha |-> 1]

\* C7: the matte canvas has side logoSize + 2*logoMargin, carries the resized
\* logo at (logoMargin, logoMargin) and is filled with the logo options'
\* background colour, white when none is given.
MatteUsesLogoBackground ==
  (IsLogoRequest /\ overlay # NoValue) =>
    LET lm == overlay.op.top
    IN /\ overlay.op.base.side = overlay.op.input.side + 2 * lm
       /\ overlay.op.left = lm
       /\ centerOptions.logoMargin # <<>> => lm = centerOptions.logoMargin[1]
       /\ centerOptions.logoSize # <<>> => overlay.op.input.side = centerOptions.logoSize[1]
       /\ overlay.op.base.background = Rgba(Supplied(centerOptions.logoBackground, "#FFFFFF"))

\* C8 as stated: with default monogram options the container side is
\* 0.15*pixelWidth + 2*0.05*pixelWidth for every pixelWidth.
ContainerSideExactFraction ==
  (IsMonogramRequest /\ overlay # NoValue) =>
    /\ (centerOptions.fontSize # <<>> /\ centerOptions.padding # <<>>) =>
         overlay.side = centerOptions.fontSize[1] + 2 * centerOptions.padding[1]
    /\ (centerOptions.fontSize = <<>> /\ centerOptions.padding = <<>>) =>
         100 * overlay.side = 15 * qrCodeBuffer.args.width + 2 * 5 * qrCodeBuffer.args.width

\* C8: the monogram container is a square of side fontSize + 2*padding; with
\* default monogram options the side is floor(0.15*W) + 2*floor(0.05*W) for the
\* pixel width W, which is 0.15*W + 2*0.05*W exactly when W is a multiple of 20.
ContainerSideFloored ==
  (IsMonogramRequest /\ overlay # NoValue) =>
    LET W == qrCodeBuffer.args.width
        F == Supplied(centerOptions.fontSize, (15 * W) \div 100)
        P == Supplied(centerOptions.padding, (5 * W) \div 100)
    IN /\ overlay.side = F + 2 * P
       /\ overlay.from.width = overlay.side /\ overlay.from.height = overlay.side
       /\ (centerOptions.fontSize = <<>> /\ centerOptions.padding = <<>>) =>
            (100 * overlay.side = 15 * W + 2 * 5 * W <=> W % 20 = 0)

ContainerSideWitness ==
  /\ IsMonogramRequest /\ overlay # NoValue
  /\ centerOptions.fontSize = <<>> /\ centerOptions.padding = <<>>
  /\ qrCodeBuffer.args.width = 15 /\ overlay.side = 2

----------------------------------------------------------------------------
(* Reading the markup back: what an XML parser makes of the text node *)

StartsWith(s, p) == Len(s) >= Len(p) /\ SubSeq(s, 1, Len(p)) = p
Drop(s, n) == SubSeq(s, n + 1, Len(s))

RECURSIVE Unescape(_)
Unescape(s) ==
  IF s = <<>> THEN <<>>
  ELSE IF StartsWith(s, AmpEntity) THEN <<"&">> \o Unescape(Drop(s, Len(AmpEntity)))
  ELSE IF StartsWith(s, LtEntity) THEN <<"<">> \o Unescape(Drop(s, Len(LtEntity)))
  ELSE IF StartsWith(s, GtEntity) THEN <<">">> \o Unescape(Drop(s, Len(GtEntity)))
  ELSE <<Head(s)>> \o Unescape(Tail(s))

WellFormedText(s) ==
  \A i \in 1..Len(s) :
    /\ s[i] \notin {"<", ">"}
    /\ s[i] = "&" => \E e \in {AmpEntity, LtEntity, GtEntity} : StartsWith(Drop(s, i - 1), e)

\* C9: the escaped monogram text holds no raw '<' or '>', each '&' in it starts
\* one of &amp; &lt; &gt;, and un-escaping it gives back the original string.
EscapeRoundTrip ==
  xpc = "done" => WellFormedText(text) /\ Unescape(text) = original

EscapeRoundTripWitness ==
  /\ xpc = "done"
  /\ original = LtEntity
  /\ text = <<"&", "a", "m", "p", ";", "l", "t", ";">>

----------------------------------------------------------------------------
\* C10 as stated: a finished invocation made exactly one fetch when it was a
\* logo request with an http(s) source, and none otherwise.
FetchExactlyOnceForRemoteLogo ==
  Done =>
    Len(netOps) = (IF IsLogoRequest /\ HasSource /\ HttpScheme(Source) THEN 1 ELSE 0)

\* C10: an invocation makes at most one fetch: a finished one made exactly one
\* when it was a logo request with an http(s) source whose QR encoding
\* succeeded, none otherwise; a failed fetch is not repeated, and the only
\* filesystem calls are existsSync and readFileSync.
AtMostOneFetch ==
  /\ Len(netOps) <= 1
  /\ Done =>
       Len(netOps) = (IF IsLogoRequest /\ HasSource /\ HttpScheme(Source) /\ EncoderSucceeded
                      THEN 1 ELSE 0)
  /\ \A i \in 1..Len(netOps) : netOps[i].url = Source
  /\ \A i \in 1..Len(fsOps) : fsOps[i].op \in {"existsSync", "readFileSync"}

AtMostOneFetchWitness ==
  /\ Done /\ IsLogoRequest /\ Len(netOps) = 1 /\ netOps[1].outcome = "network"
  /\ result.status = "rejected"

----------------------------------------------------------------------------
(* The composer called twice in a row with the same arguments *)

\* the caller's second call: same arguments, fresh locals, the first outcome kept
CallAgain ==
  /\ pc = "done"
  /\ calls = 1
  /\ calls' = 2
  /\ previous' = <<[result |-> result, thrown |-> thrown, netOps |-> netOps, fsOps |-> fsOps]>>
  /\ pc' = "call"
  /\ qrCodeBuffer' = NoValue
  /\ logoSourceBuffer' = NoValue
  /\ logoBuffer' = NoValue
  /\ overlay' = NoValue
  /\ encoderCalls' = <<>>
  /\ netOps' = <<>>
  /\ fsOps' = <<>>
  /\ compositeOps' = <<>>
  /\ thrown' = <<>>
  /\ result' = Pending
  /\ UNCHANGED <<invocation, active, parked, escapeVars, sideVars>>

NextTwice == Next \/ CallAgain

SpecTwice == Init /\ [][NextTwice]_vars

----------------------------------------------------------------------------
(* Two invocations interleaving at their await points *)

\* the arguments, locals, logs and promise of the running invocation
Frame ==
  [url |-> url, options |-> options, centerType |-> centerType,
   centerOptions |-> centerOptions, pc |-> pc, qrCodeBuffer |-> qrCodeBuffer,
   logoSourceBuffer |-> logoSourceBuffer, logoBuffer |-> logoBuffer, overlay |-> overlay,
   encoderCalls |-> encoderCalls, netOps |-> netOps, fsOps |-> fsOps,
   compositeOps |-> compositeOps, thrown |-> thrown, result |-> result]

\* an invocation that has not run yet
FreshFrame(u, o, ct, co) ==
  [url |-> u, options |-> o, centerType |-> ct, centerOptions |-> co, pc |-> "call",
   qrCodeBuffer |-> NoValue, logoSourceBuffer |-> NoValue, logoBuffer |-> NoValue,
   overlay |-> NoValue, encoderCalls |-> <<>>, netOps |-> <<>>, fsOps |-> <<>>,
   compositeOps |-> <<>>, thrown |-> <<>>, result |-> Pending]

ConcurrentOptions ==
  {[width |-> w, margin |-> Undefined, color |-> Undefined,
    errorCorrectionLevel |-> Undefined] : w \in {Undefined, Some(20)}}

ConcurrentCenters ==
  {<<Some("none"), NoCenterOptions>>,
   <<Some("logo"), [NoCenterOptions EXCEPT !.logoPath = Some(SrcHttp)]>>,
   <<Some("logo"), [NoCenterOptions EXCEPT !.logoPath = Some(SrcLocal)]>>,
   <<Some("monogram"), NoCenterOptions>>}

\* the event loop resumes the other invocation, with qrCodeBuffer kept in a
\* variable of the module instead of a local of the call
SwitchSharedBuffer ==
  /\ parked # <<>>
  /\ parked' = <<Frame>>
  /\ active' = 3 - active
  /\ url' = parked[1].url
  /\ options' = parked[1].options
  /\ centerType' = parked[1].centerType
  /\ centerOptions' = parked[1].centerOptions
  /\ pc' = parked[1].pc
  /\ qrCodeBuffer' = qrCodeBuffer
  /\ logoSourceBuffer' = parked[1].logoSourceBuffer
  /\ logoBuffer' = parked[1].logoBuffer
  /\ overlay' = parked[1].overlay
  /\ encoderCalls' = parked[1].encoderCalls
  /\ netOps' = parked[1].netOps
  /\ fsOps' = parked[1].fsOps
  /\ compositeOps' = parked[1].compositeOps
  /\ thrown' = parked[1].thrown
  /\ result' = parked[1].result
  /\ UNCHANGED <<calls, previous, escapeVars, sideVars>>

\* the event loop suspends the running invocation at its await and resumes the
\* other one: every argument and local belongs to its own call
Switch ==
  /\ parked # <<>>
  /\ parked' = <<Frame>>
  /\ active' = 3 - active
  /\ url' = parked[1].url
  /\ options' = parked[1].options
  /\ centerType' = parked[1].centerType
  /\ centerOptions' = parked[1].centerOptions
  /\ pc' = parked[1].pc
  /\ qrCodeBuffer' = parked[1].qrCodeBuffer
  /\ logoSourceBuffer' = parked[1].logoSourceBuffer
  /\ logoBuffer' = parked[1].logoBuffer
  /\ overlay' = parked[1].overlay
  /\ encoderCalls' = parked[1].encoderCalls
  /\ netOps' = parked[1].netOps
  /\ fsOps' = parked[1].fsOps
  /\ compositeOps' = parked[1].compositeOps
  /\ thrown' = parked[1].thrown
  /\ result' = parked[1].result
  /\ UNCHANGED <<calls, previous, escapeVars, sideVars>>

InitConcurrent ==
  /\ url \in Urls
  /\ options \in ConcurrentOptions
  /\ \E c \in ConcurrentCenters : centerType = c[1] /\ centerOptions = c[2]
  /\ pc = "call"
  /\ qrCodeBuffer = NoValue
  /\ logoSourceBuffer = NoValue
  /\ logoBuffer = NoValue
  /\ overlay = NoValue
  /\ encoderCalls = <<>>
  /\ netOps = <<>>
  /\ fsOps = <<>>
  /\ compositeOps = <<>>
  /\ thrown = <<>>
  /\ result = Pending
  /\ EscapeIdle
  /\ SideIdle
  /\ calls = 1 /\ previous = <<>> /\ active = 1
  /\ parked \in {<<FreshFrame(u, o, c[1], c[2])>> :
                   u \in Urls, o \in ConcurrentOptions, c \in ConcurrentCenters}

NextConcurrent == Next \/ Switch

SpecConcurrent == InitConcurrent /\ [][NextConcurrent]_vars

\* what an invocation with the running invocation's arguments returns when it
\* runs alone and no step fails
AloneOutput ==
  LET w == Supplied(options.width, DefaultWidth)
      base == QRImage(url, EncoderArgs(Supplied(options.color, DefaultColor), w,
                                       Supplied(options.margin, DefaultMargin),
                                       Supplied(options.errorCorrectionLevel, DefaultLevel)))
      centre(side, input) ==
        [kind |-> "composite", side |-> w,
         op |-> [base |-> base, input |-> input, top |-> (w - side) \div 2,
                 left |-> (w - side) \div 2]]
  IN IF EffectiveType = "none" THEN QRImage(url, NoneArgs)
     ELSE IF EffectiveType = "logo"
     THEN IF ~HasSource THEN base
          ELSE LET ls == Supplied(centerOptions.logoSize, (w * 20) \div 100)
                   lm == Supplied(centerOptions.logoMargin, (w * 5) \div 100)
                   bytes == [kind |-> "bytes",
                             source |-> IF StartsWith(Source, UploadsPrefix)
                                        THEN ParentDir \o Source ELSE Source]
                   logo == [kind |-> "resized", from |-> bytes, side |-> ls, fit |-> "contain"]
                   matte == [kind |-> "composite", side |-> ls + 2 * lm,
                             op |-> [base |-> [kind |-> "canvas", side |-> ls + 2 * lm,
                                               background |-> OpaqueWhite],
                                     input |-> logo, top |-> lm, left |-> lm]]
               IN centre(ls + 2 * lm, matte)
     ELSE LET fs == Supplied(centerOptions.fontSize, (w * 15) \div 100)
              pd == Supplied(centerOptions.padding, (w * 5) \div 100)
              svg == [kind |-> "svg", width |-> fs + 2 * pd, height |-> fs + 2 * pd,
                      rectFill |-> Supplied(centerOptions.backgroundColor, "#FFFFFF"),
                      rx |-> DefaultBorderRadius, ry |-> DefaultBorderRadius, fontSize |-> fs,
                      text |-> EscapeXml(Supplied(centerOptions.monogram, DefaultMonogram))]
          IN centre(fs + 2 * pd, [kind |-> "raster", side |-> fs + 2 * pd, from |-> svg])

\* C12: an invocation interleaved with another one settles as it does alone:
\* with the output of its own arguments when none of its steps failed, with its
\* own step's error otherwise, and its calls name its own url and logo source.
InterleavingIsolated ==
  /\ Done => result = (IF thrown = <<>> THEN Resolved(AloneOutput) ELSE Rejected(thrown[1]))
  /\ \A i \in 1..Len(encoderCalls) : encoderCalls[i].text = url
  /\ \A i \in 1..Len(netOps) : netOps[i].url = Source

InterleavingWitness ==
  /\ Done /\ parked # <<>> /\ parked[1].pc = "done"
  /\ IsLogoRequest /\ result.status = "resolved" /\ result.value.kind = "composite"
  /\ parked[1].result.status = "resolved" /\ parked[1].url # url
  /\ Len(parked[1].compositeOps) = 1

----------------------------------------------------------------------------
(* Media upload: the multer middleware of src/middleware/upload.js and the  *)
(* guest route POST /upload/qr/:qrCode of src/routes/media.js.  A file is  *)
(* [mimetype, size]; the multipart parser takes the files of the form in   *)
(* order and stops at the first one that breaks a limit.                   *)

MaxFiles == 11

allowedImageTypes ==
  {"image/jpeg", "image/jpg", "image/png", "image/gif", "image/webp"}

allowedVideoTypes ==
  {"video/mp4", "video/avi", "video/mov", "video/wmv", "video/flv", "video/webm"}

fileFilterAcceptsAll(file) == TRUE

\* fileFilter: cb(null, true) exactly for the listed types
fileFilter(file) ==
  file.mimetype \in allowedImageTypes \/ file.mimetype \in allowedVideoTypes

\* limits.fileSize, in bytes
LimitFileSize == 50 * 1024 * 1024

\* limits.files
LimitFiles == 10

\* upload.array('media', 10)
maxCount == 10

\* what the parser raises at the i-th file of the form, "" when it takes it
FileError(fs, i) ==
  IF i > LimitFiles THEN "LIMIT_FILE_COUNT"
  ELSE IF i > maxCount THEN "LIMIT_UNEXPECTED_FILE"
  ELSE IF ~fileFilter(fs[i]) THEN "Invalid file type"
  ELSE IF fs[i].size > LimitFileSize THEN "LIMIT_FILE_SIZE"
  ELSE ""

\* the error upload.array passes to next(), "" when it sets req.files
MulterError(fs) ==
  LET bad == {i \in 1..Len(fs) : FileError(fs, i) # ""}
  IN  IF bad = {} THEN ""
      ELSE FileError(fs, CHOOSE i \in bad : \A j \in bad : i <= j)

\* handleUploadError: the status it answers with, 500 when it calls next(error)
handleUploadError(error) ==
  IF error \in {"LIMIT_FILE_SIZE", "LIMIT_FILE_COUNT", "LIMIT_UNEXPECTED_FILE"}
  THEN 400
  ELSE IF error = "Invalid file type" THEN 400
  ELSE 500

\* String.prototype.trim on a tuple of characters
RECURSIVE TrimStart(_)
TrimStart(s) ==
  IF s # <<>> /\ Head(s) = " " THEN TrimStart(Tail(s)) ELSE s

RECURSIVE TrimEnd(_)
TrimEnd(s) ==
  IF s # <<>> /\ s[Len(s)] = " " THEN TrimEnd(SubSeq(s, 1, Len(s) - 1)) ELSE s

Trim(s) == TrimEnd(TrimStart(s))

\* file.mimetype.startsWith('image/') ? 'image' : 'video'
mediaType(file) ==
  IF file.mimetype \in {"image/jpeg", "image/jpg", "image/png", "image/gif",
                        "image/webp", "image/svg+xml"}
  THEN "image" ELSE "video"

(* Requests *)

Users == {"anonymous", "host", "admin"}

\* auth: the request carries the token of a user
auth(u) == u # "anonymous"

GoodFile == [mimetype |-> "image/jpeg", size |-> 1]

SpecialFiles ==
  { [mimetype |-> "application/pdf", size |-> 1],
    [mimetype |-> "image/svg+xml", size |-> 1],
    [mimetype |-> "video/mp4", size |-> LimitFileSize],
    [mimetype |-> "video/mp4", size |-> LimitFileSize + 1] }

\* forms of 0..MaxFiles files in which the first or the last file is special
FileLists ==
  UNION {{[i \in 1..n |-> IF i = k THEN f ELSE GoodFile] :
            k \in {1, n}, f \in SpecialFiles} : n \in 0..MaxFiles}

\* the forms sent to the host route
HostFileLists == {fs \in FileLists : Len(fs) <= 2}

UploadedBys == {Undefined, Some(<<" ">>), Some(<<"A", "n", "a">>)}

\* an album document as the album routes leave it
AlbumDoc(creator, public, status, approver) ==
  [createdBy |-> creator, isPublic |-> public, approvalStatus |-> status,
   approvedBy |-> approver, mediaCount |-> 0]

StoredAlbums ==
  { AlbumDoc(Some("host"), FALSE, "approved", Undefined),
    AlbumDoc(Undefined, TRUE, "pending", Undefined),
    AlbumDoc(Undefined, TRUE, "approved", Some("host")) }

QrCodes == {1, 2}

\* Album.findOne({ qrCode }): the album whose code it is, if any
FindAlbumByQr(q) == IF q \in 1..Len(albums) THEN Some(q) ELSE Undefined

\* Album.findById(albumId)
FindAlbumById(id) == IF id \in 1..Len(albums) THEN Some(id) ELSE Undefined

\* the _id of the Media document made for file idx of the upload request
UploadedId(idx) == 100 + idx

InitUpload ==
  /\ albums \in {<<>>} \cup {<<a>> : a \in StoredAlbums}
  /\ media = <<>>
  /\ mreqs = <<>>
  /\ up = NoUpload
  /\ lastOp = <<>>
  /\ ComposerIdle
  /\ EscapeIdle
  /\ PairIdle
  /\ RsvpIdle
  /\ RetryIdle

uploadFrame == <<composerVars, escapeVars, pairVars, lastOp, mreqs, rsvpVars, retryVars>>

\* a multipart request, with one of these forms, reaches the guest route
GuestUploadArrive(forms, names, codes) ==
  /\ up.pc = "idle"
  /\ \E fs \in forms, by \in names, q \in codes :
       up' = [up EXCEPT !.pc = "multer", !.sent = fs, !.uploadedBy = by,
                        !.qrCode = q]
  /\ UNCHANGED <<albums, media, uploadFrame>>

UploadArrive == GuestUploadArrive(FileLists, UploadedBys, QrCodes)

\* a multipart request reaches the host route: auth runs before multer
HostUploadArrive ==
  /\ up.pc = "idle"
  /\ \E fs \in HostFileLists, by \in UploadedBys, id \in QrCodes, u \in Users :
       LET req == [up EXCEPT !.route = "host", !.user = u, !.sent = fs,
                             !.uploadedBy = by, !.albumId = id]
       IN  up' = IF auth(u)
                 THEN [req EXCEPT !.pc = "multer"]
                 ELSE [req EXCEPT !.pc = "done", !.res = 401]
  /\ UNCHANGED <<albums, media, uploadFrame>>

\* upload.array('media', 10): req.files, or an error for the error middleware
UploadMulter ==
  /\ up.pc = "multer"
  /\ LET e == MulterError(up.sent)
     IN  up' = IF e = ""
               THEN [up EXCEPT !.pc = "handler", !.files = up.sent]
               ELSE [up EXCEPT !.pc = "error", !.error = e]
  /\ UNCHANGED <<albums, media, uploadFrame>>

\* handleUploadError runs only with an error and ends the request
UploadHandleError ==
  /\ up.pc = "error"
  /\ up' = [up EXCEPT !.pc = "done", !.res = handleUploadError(up.error)]
  /\ UNCHANGED <<albums, media, uploadFrame>>

\* body('uploadedBy').trim().isLength({ min: 1, max: 100 }) of the host route
UploadedByValid(by) ==
  LET value == IF IsUndefined(by) THEN <<>> ELSE Trim(by[1])
  IN  Len(value) >= 1 /\ Len(value) <= 100

\* guest, lines 25-38: the two body checks, then Album.findOne;
\* host, lines 179-195: the validation result, the files, then Album.findById
UploadLookup ==
  /\ up.pc = "handler"
  /\ up' = IF up.route = "guest"
           THEN IF Len(up.files) = 0
                THEN [up EXCEPT !.pc = "done", !.res = 400]
                ELSE IF IsUndefined(up.uploadedBy) \/ Trim(up.uploadedBy[1]) = <<>>
                THEN [up EXCEPT !.pc = "done", !.res = 400]
                ELSE [up EXCEPT !.pc = "found", !.album = FindAlbumByQr(up.qrCode)]
           ELSE IF ~UploadedByValid(up.uploadedBy)
                THEN [up EXCEPT !.pc = "done", !.res = 400]
                ELSE IF Len(up.files) = 0
                THEN [up EXCEPT !.pc = "done", !.res = 400]
                ELSE [up EXCEPT !.pc = "found", !.album = FindAlbumById(up.albumId)]
  /\ UNCHANGED <<albums, media, uploadFrame>>

AvailableForUploadsIfPublic(album) ==
  album.isPublic

\* the negation of !album.isPublic || album.approvalStatus !== 'approved'
AvailableForUploads(album) ==
  album.isPublic /\ album.approvalStatus = "approved"

\* guest, lines 39-55: 404 without an album, 403 unless public and approved;
\* host, lines 196-201: 404 without an album
UploadGate ==
  /\ up.pc = "found"
  /\ up' = IF IsUndefined(up.album)
           THEN [up EXCEPT !.pc = "done", !.res = 404]
           ELSE IF up.route = "guest" /\ ~AvailableForUploads(albums[up.album[1]])
           THEN [up EXCEPT !.pc = "done", !.res = 403]
           ELSE [up EXCEPT !.pc = "loop", !.idx = 1]
  /\ UNCHANGED <<albums, media, uploadFrame>>

FileOutcomes == {"saved", "upload failed", "save failed"}

NextFileBreakOnFailure(u, o) ==
  IF o = "saved" THEN u.idx + 1 ELSE Len(u.files) + 1

\* for (const file of files) with the catch inside the loop body: the file
\* the loop turns to after file u.idx came out as o
NextFile(u, o) ==
  u.idx + 1

\* lines 57-121 and 203-255: one pass of the loop; a failure of the upload
\* or of media.save() is caught and the loop goes on
UploadFile ==
  /\ up.pc = "loop"
  /\ up.idx <= Len(up.files)
  /\ \E o \in FileOutcomes :
       LET file == up.files[up.idx]
           doc == [id |-> UploadedId(up.idx),
                   album |-> up.album[1], originalName |-> up.idx,
                   mimeType |-> file.mimetype, size |-> file.size,
                   mediaType |-> mediaType(file),
                   uploadedBy |-> Trim(up.uploadedBy[1]), isApproved |-> TRUE]
       IN  /\ up' = [up EXCEPT !.idx = NextFile(up, o),
                               !.attempts = Append(up.attempts, o),
                               !.uploadedMedia =
                                  IF o = "saved" THEN Append(up.uploadedMedia, doc)
                                  ELSE up.uploadedMedia]
           /\ media' = IF o = "saved" THEN Append(media, doc) ELSE media
  /\ UNCHANGED <<albums, uploadFrame>>

\* updateMediaCount: countDocuments({ album })
UploadCount ==
  /\ up.pc = "loop"
  /\ up.idx > Len(up.files)
  /\ up' = [up EXCEPT !.pc = "counted",
                      !.count = Cardinality({i \in 1..Len(media) :
                                               media[i].album = up.album[1]})]
  /\ UNCHANGED <<albums, media, uploadFrame>>

\* updateMediaCount: this.mediaCount = count, save; then the 201 answer, or
\* the 500 answer of the catch block when save() rejects
UploadRespond ==
  /\ up.pc = "counted"
  /\ \E o \in {"saved", "rejected"} :
       IF o = "saved"
       THEN /\ albums' = [albums EXCEPT ![up.album[1]].mediaCount = up.count]
            /\ up' = [up EXCEPT !.pc = "done", !.res = 201]
       ELSE /\ albums' = albums
            /\ up' = [up EXCEPT !.pc = "done", !.res = 500,
                                !.error = "updateMediaCount"]
  /\ UNCHANGED <<media, uploadFrame>>

NextUpload ==
  \/ UploadArrive
  \/ HostUploadArrive
  \/ UploadMulter
  \/ UploadHandleError
  \/ UploadLookup
  \/ UploadGate
  \/ UploadFile
  \/ UploadCount
  \/ UploadRespond

SpecUpload == InitUpload /\ [][NextUpload]_vars

\* the limits as the documentation states them
WithinLimits(fs) ==
  /\ Len(fs) <= 10
  /\ \A i \in 1..Len(fs) :
       /\ fs[i].size <= 50 * 1024 * 1024
       /\ fs[i].mimetype \in allowedImageTypes \cup allowedVideoTypes

SavedFiles == {i \in 1..Len(up.attempts) : up.attempts[i] = "saved"}

\* the request got past its checks into the loop over req.files
InBatch == up.idx >= 1

\* every file before the current one was attempted once, in request order,
\* whatever became of the files before it; the Media documents are those of
\* the files that came out saved, and uploadedMedia lists exactly them
BatchSurvivors ==
  InBatch =>
    /\ Len(up.attempts) = up.idx - 1
    /\ up.idx <= Len(up.files) + 1
    /\ up.pc \in {"counted", "done"} => Len(up.attempts) = Len(up.files)
    /\ {media[j].id : j \in 1..Len(media)} = {UploadedId(i) : i \in SavedFiles}
    /\ Len(media) = Cardinality(SavedFiles)
    /\ \A j \in 1..Len(media) : media[j].album = up.album[1]
    /\ up.uploadedMedia = media

GuestAlbumOpen ==
  /\ up.qrCode \in 1..Len(albums)
  /\ albums[up.qrCode].isPublic
  /\ albums[up.qrCode].approvalStatus = "approved"

\* the guest request carries files within the limits and a guest name
GuestRequestWellFormed ==
  /\ WithinLimits(up.sent)
  /\ Len(up.sent) >= 1
  /\ ~IsUndefined(up.uploadedBy)
  /\ Trim(up.uploadedBy[1]) # <<>>

----------------------------------------------------------------------------
(* Album routes of src/routes/albums.js: POST /, POST /guest,              *)
(* PUT /:id/approve and PUT /:id.  The auth middleware answers 401 to a    *)
(* request without a valid token and otherwise sets req.user; a handler    *)
(* runs from its first line to its answer as one step.  Creating an album  *)
(* can fail in save(), on schema validation or in the database.            *)

MaxAlbums == 2

\* body('name').trim().isLength({ min: 1, max: 100 })
NameValid(name) == Len(Trim(name)) >= 1 /\ Len(Trim(name)) <= 100

\* body('guestEmail').trim().isEmail()
IsEmail(e) == e = "guest@example.com"

Names == {<<" ">>, <<"P">>}

GuestEmails == {Some("not an address"), Some("guest@example.com")}

PublicFlags == {Undefined, Some(TRUE), Some(FALSE)}

SaveOutcomes == {"saved", "rejected"}

\* the answer of the route and what it was asked, kept for the properties
Op(route, u, id, action, status) ==
  <<[route |-> route, user |-> u, id |-> id, action |-> action, status |-> status]>>

albumFrame == <<composerVars, escapeVars, pairVars, media, up, mreqs, rsvpVars, retryVars>>

\* an answer that leaves the collection as it is; id and action are noted
\* only when the handler got to read them
Refuse(route, u, id, action, status) ==
  /\ albums' = albums
  /\ lastOp' = Op(route, u, id, action, status)
  /\ UNCHANGED albumFrame

HostAlbum(u, isPublic) == AlbumDoc(Some(u), isPublic, "approved", Undefined)

\* POST /albums
CreateAlbum ==
  /\ Len(albums) < MaxAlbums
  /\ \E u \in Users :
       IF ~auth(u) THEN Refuse("POST /albums", u, 0, "", 401)
       ELSE \E name \in Names :
         IF ~NameValid(name) THEN Refuse("POST /albums", u, 0, "", 400)
         ELSE IF u # "host" THEN Refuse("POST /albums", u, 0, "", 403)
         ELSE \E p \in PublicFlags, o \in SaveOutcomes :
           IF o = "rejected" THEN Refuse("POST /albums", u, 0, "", 500)
           ELSE /\ albums' = Append(albums, HostAlbum(u, DestructureDefault(p, TRUE)))
                /\ lastOp' = Op("POST /albums", u, Len(albums'), "", 201)
                /\ UNCHANGED albumFrame

GuestAlbumSchemaDefault(isPublic) == AlbumDoc(Undefined, isPublic, "approved", Undefined)

GuestAlbum(isPublic) == AlbumDoc(Undefined, isPublic, "pending", Undefined)

\* POST /albums/guest
CreateGuestAlbum ==
  /\ Len(albums) < MaxAlbums
  /\ \E u \in {"anonymous", "host"}, name \in Names, e \in GuestEmails :
       IF ~NameValid(name) \/ IsUndefined(e) \/ ~IsEmail(e[1])
       THEN Refuse("POST /albums/guest", u, 0, "", 400)
       ELSE \E p \in PublicFlags, o \in SaveOutcomes :
         IF o = "rejected" THEN Refuse("POST /albums/guest", u, 0, "", 500)
         ELSE /\ albums' = Append(albums, GuestAlbum(DestructureDefault(p, TRUE)))
              /\ lastOp' = Op("POST /albums/guest", u, Len(albums'), "", 201)
              /\ UNCHANGED albumFrame

ApproveActions == {"approve", "reject", "publish"}

AlbumIds == 1..(MaxAlbums + 1)

\* PUT /albums/:id/approve
ApproveAlbum ==
  \E u \in Users :
    IF ~auth(u) THEN Refuse("PUT /albums/:id/approve", u, 0, "", 401)
    ELSE IF u # "host" THEN Refuse("PUT /albums/:id/approve", u, 0, "", 403)
    ELSE \E id \in AlbumIds, action \in ApproveActions :
      IF action \notin {"approve", "reject"}
      THEN Refuse("PUT /albums/:id/approve", u, 0, action, 400)
      ELSE IF id \notin 1..Len(albums)
      THEN Refuse("PUT /albums/:id/approve", u, id, action, 404)
      ELSE /\ albums' = IF action = "approve"
                        THEN [albums EXCEPT ![id].approvalStatus = "approved",
                                            ![id].approvedBy = Some(u)]
                        ELSE [albums EXCEPT ![id].approvalStatus = "rejected",
                                            ![id].approvedBy = Undefined]
           /\ lastOp' = Op("PUT /albums/:id/approve", u, id, action, 200)
           /\ UNCHANGED albumFrame

\* PUT /albums/:id
UpdateAlbum ==
  \E u \in Users :
    IF ~auth(u) THEN Refuse("PUT /albums/:id", u, 0, "", 401)
    ELSE \E name \in Names :
      IF ~NameValid(name) THEN Refuse("PUT /albums/:id", u, 0, "", 400)
      ELSE \E id \in AlbumIds :
        IF id \notin 1..Len(albums) \/ albums[id].createdBy # Some(u)
        THEN Refuse("PUT /albums/:id", u, id, "", 404)
        ELSE \E p \in PublicFlags :
          /\ albums' = IF IsUndefined(p) THEN albums
                       ELSE [albums EXCEPT ![id].isPublic = p[1]]
          /\ lastOp' = Op("PUT /albums/:id", u, id, "", 200)
          /\ UNCHANGED albumFrame

\* optionalAuth sets req.user when the request carries the token of a user;
\* req.user && req.user.role === 'host'
IsHost(u) == auth(u) /\ u = "host"

ListFilterPublicOnly(u, album) ==
  IsHost(u) \/ album.isPublic

\* GET /albums, lines 142-147: the documents the filter matches
ListFilter(u, album) ==
  IsHost(u) \/ (album.isPublic /\ album.approvalStatus = "approved")

\* GET /albums/:id, lines 264-276: the two 403 checks let the requester on
MayView(u, album) ==
  /\ ~(~album.isPublic /\ ~IsHost(u))
  /\ IsHost(u) \/ album.approvalStatus = "approved"

\* GET /albums/:id, lines 279-287: the filter of Media.find
MediaFilter(u, id, album, m) ==
  /\ m.album = id
  /\ (~IsHost(u) /\ album.approvalStatus # "approved") => m.isApproved

\* the answer of a GET route: the ids of the albums and the Media documents
\* in it (a page of the result, or a featured-only result, is part of these)
Got(route, u, id, as, ms) ==
  <<[route |-> route, user |-> u, id |-> id, action |-> "", status |-> 200,
     albums |-> as, media |-> ms]>>

\* GET /albums
ListAlbums ==
  \E u \in Users :
    /\ albums' = albums
    /\ lastOp' = Got("GET /albums", u, 0,
                     {a \in 1..Len(albums) : ListFilter(u, albums[a])}, {})
    /\ UNCHANGED albumFrame

\* GET /albums/:id
GetAlbum ==
  \E u \in Users, id \in AlbumIds :
    IF id \notin 1..Len(albums) THEN Refuse("GET /albums/:id", u, id, "", 404)
    ELSE IF ~MayView(u, albums[id]) THEN Refuse("GET /albums/:id", u, id, "", 403)
    ELSE /\ albums' = albums
         /\ lastOp' = Got("GET /albums/:id", u, id, {id},
                          {media[j] : j \in {k \in 1..Len(media) :
                               MediaFilter(u, id, albums[id], media[k])}})
         /\ UNCHANGED albumFrame

InitAlbums ==
  /\ GalleryIdle
  /\ ComposerIdle
  /\ EscapeIdle
  /\ PairIdle
  /\ RsvpIdle
  /\ RetryIdle

NextAlbums ==
  \/ CreateAlbum
  \/ CreateGuestAlbum
  \/ ApproveAlbum
  \/ UpdateAlbum
  \/ ListAlbums
  \/ GetAlbum

SpecAlbums == InitAlbums /\ [][NextAlbums]_vars

\* the album was created through POST /albums/guest: it has no creating user
GuestCreated(a) == IsUndefined(a.createdBy)

\* C14: an album that POST /albums/guest creates starts 'pending', one that
\* POST /albums creates starts 'approved', and a guest-created album becomes
\* 'approved' only in a step of PUT /albums/:id/approve in which a host
\* approves that album.
AlbumApprovalLifecycle ==
  [][ /\ Len(albums') > Len(albums) =>
           LET a == albums'[Len(albums')]
           IN  /\ lastOp'[1].route = "POST /albums/guest"
                    => a.approvalStatus = "pending" /\ GuestCreated(a)
               /\ lastOp'[1].route = "POST /albums"
                    => a.approvalStatus = "approved" /\ ~GuestCreated(a)
               /\ lastOp'[1].route \in {"POST /albums/guest", "POST /albums"}
      /\ \A i \in 1..Len(albums) :
           ( /\ GuestCreated(albums[i])
             /\ albums[i].approvalStatus # "approved"
             /\ albums'[i].approvalStatus = "approved" )
           => /\ lastOp'[1].route = "PUT /albums/:id/approve"
              /\ lastOp'[1].user = "host"
              /\ lastOp'[1].action = "approve"
              /\ lastOp'[1].id = i
              /\ lastOp'[1].status = 200 ]_vars

AlbumApprovalWitness ==
  /\ Len(albums) = 2
  /\ GuestCreated(albums[1]) /\ albums[1].approvalStatus = "approved"
  /\ albums[1].approvedBy = Some("host")
  /\ ~GuestCreated(albums[2]) /\ albums[2].approvalStatus = "approved"
  /\ lastOp # <<>> /\ lastOp[1].route = "PUT /albums/:id/approve"

\* the last request was a GET that handed albums to somebody who is not an
\* authenticated host
HandedToNonHost ==
  /\ lastOp # <<>>
  /\ lastOp[1].route \in {"GET /albums", "GET /albums/:id"}
  /\ lastOp[1].status = 200
  /\ ~IsHost(lastOp[1].user)

\* C27: whatever create, approve, reject and update operations came before,
\* GET /albums and GET /albums/:id hand to a requester who is not an
\* authenticated host only albums that are public and approved.
NonHostGetsOnlyOpenAlbums ==
  HandedToNonHost =>
    \A a \in lastOp[1].albums :
      albums[a].isPublic /\ albums[a].approvalStatus = "approved"

NonHostGetsOnlyOpenAlbumsWitness ==
  /\ HandedToNonHost
  /\ lastOp[1].route = "GET /albums"
  /\ lastOp[1].user = "admin"
  /\ lastOp[1].albums = {2}
  /\ albums[1].isPublic /\ albums[1].approvalStatus = "rejected"
  /\ albums[2].isPublic /\ albums[2].approvalStatus = "approved"

----------------------------------------------------------------------------
(* RSVP: POST /submit/:qrCode and PUT /update/:id of src/routes/rsvp.js,   *)
(* GET /qr/:qrCode and PUT /:id of src/routes/invitations.js, and the      *)
(* methods of src/models/Invitation.js, for one invitation whose qrCode is *)
(* "q".  A public request is cut at its awaits: the lookup, each save().   *)
(* save() writes the paths the request changed on the document it loaded;  *)
(* a change of the guestNames array is written only if the stored version  *)
(* is still the loaded one and fails with a VersionError otherwise.  The   *)
(* stamp of a request (ip, user agent, time) is its number.                *)

MaxRequests == 2

SubmitBody(qr, status, count, names, email, phone) ==
  [qrCode |-> qr, status |-> status, attendeeCount |-> count,
   guestNames |-> names, email |-> email, phone |-> phone]

Mail == Some(<<"e">>)
Phone == Some(<<"5">>)
Guests == Some(<<<<"G">>>>)

SubmitBodies ==
  { SubmitBody("q", Undefined, Undefined, Undefined, Undefined, Undefined),
    SubmitBody("q", Some("maybe"), Some(2), Guests, Mail, Phone),
    SubmitBody("q", Some("not_attending"), Some(3), Guests, Mail, Phone),
    SubmitBody("q", Some("attending"), Some(2), Guests, Mail, Phone),
    SubmitBody("q", Some("attending"), Some(0), Guests, Mail, Phone),
    SubmitBody("q", Some("attending"), Some(2), Guests, Some(<<" ">>), Phone),
    SubmitBody("q", Some("attending"), Some(2), Guests, Mail, Undefined),
    SubmitBody("q", Some("attending"), Some(2), Some(<<<<" ">>>>), Mail, Phone),
    SubmitBody("zz", Some("attending"), Some(2), Guests, Mail, Phone) }

\* Invitation.findOne({ qrCode, isActive: true })
FindActive(qr) ==
  IF qr = "q" /\ invitation.isActive THEN Some(invitation) ELSE Undefined

\* lines 13-17: !status || !['attending', 'not_attending'].includes(status)
StatusInvalid(b) ==
  IsUndefined(b.status) \/ b.status[1] \notin {"attending", "not_attending"}

\* lines 34-58: the checks of an attending answer
AttendingInvalid(b) ==
  \/ IsUndefined(b.attendeeCount) \/ b.attendeeCount[1] = 0 \/ b.attendeeCount[1] < 1
  \/ IsUndefined(b.email) \/ b.email[1] = <<>> \/ Trim(b.email[1]) = <<>>
  \/ IsUndefined(b.phone) \/ b.phone[1] = <<>> \/ Trim(b.phone[1]) = <<>>
  \/ IsUndefined(b.guestNames) \/ Len(b.guestNames[1]) < 1
  \/ Trim(b.guestNames[1][1]) = <<>>

SubmitDecisionChangeable(doc, b) ==
  IF IsUndefined(doc) THEN 404
  ELSE IF b.status[1] = "attending" /\ AttendingInvalid(b) THEN 400
  ELSE 200

\* lines 21-59: the answer the handler decides on after the lookup
SubmitDecision(doc, b) ==
  IF IsUndefined(doc) THEN 404
  ELSE IF doc[1].status # "pending" THEN 400
  ELSE IF b.status[1] = "attending" /\ AttendingInvalid(b) THEN 400
  ELSE 200

ProceedsToSaveAlways(doc, code) == ~IsUndefined(doc)

\* every return res.status(4xx) comes before submitRSVP
ProceedsToSave(doc, code) == code = 200

\* lines 67-73
rsvpData(b) ==
  LET attending == b.status[1] = "attending"
  IN  [status |-> b.status[1],
       attendeeCount |-> IF attending THEN b.attendeeCount[1] ELSE 0,
       guestNames |-> IF attending
                      THEN (IF IsUndefined(b.guestNames) THEN <<>> ELSE b.guestNames[1])
                      ELSE <<>>,
       email |-> IF attending
                 THEN (IF IsUndefined(b.email) THEN <<>> ELSE b.email[1])
                 ELSE <<>>,
       phone |-> IF attending
                 THEN (IF IsUndefined(b.phone) THEN <<>> ELSE b.phone[1])
                 ELSE <<>>]

\* submitRSVP: the assignments, with the schema's trim on strings
submitRSVP(doc, data, stamp) ==
  [doc EXCEPT !.status = data.status,
              !.attendeeCount = IF data.attendeeCount = 0 THEN 1 ELSE data.attendeeCount,
              !.guestNames = [i \in 1..Len(data.guestNames) |-> Trim(data.guestNames[i])],
              !.email = Some(Trim(data.email)),
              !.phone = Some(Trim(data.phone)),
              !.respondedBy = Some(stamp)]

\* markAsOpened: the assignments
markAsOpened(doc, stamp) ==
  [doc EXCEPT !.isOpened = TRUE, !.openedBy = Some(stamp)]

\* save(): the changed paths over the stored document
Save(stored, before, after) ==
  [f \in DOMAIN stored |->
     IF f = "v"
     THEN (IF after.guestNames # before.guestNames THEN stored.v + 1 ELSE stored.v)
     ELSE IF after[f] # before[f] THEN after[f] ELSE stored[f]]

\* save() of a changed array on a document that was written since it was loaded
VersionError(stored, before, after) ==
  after.guestNames # before.guestNames /\ stored.v # before.v

Request(kind, b, at, doc, res, seen, racing) ==
  [kind |-> kind, body |-> b, pc |-> at, doc |-> doc, res |-> res, writes |-> 0,
   seen |-> seen, racing |-> racing]

\* what is stored at the time of a lookup of qrCode qr: whether the
\* invitation is answered and whether it is active
Seen(qr) ==
  IF qr = "q"
  THEN Some([answered |-> invitation.status # "pending",
             isActive |-> invitation.isActive])
  ELSE Undefined

\* the answer ends the request: its body and its document are gone
Finish(req, code) ==
  [req EXCEPT !.pc = "done", !.res = code, !.doc = Undefined, !.body = <<>>]

\* the submits that have loaded the pending invitation and not yet saved
Unsaved ==
  {i \in 1..Len(reqs) : /\ reqs[i].kind = "submit"
                        /\ reqs[i].pc = "found"
                        /\ ~IsUndefined(reqs[i].doc)
                        /\ reqs[i].doc[1].status = "pending"}

\* the submits a new submit of qrCode qr races with: both load the pending
\* invitation before either saves
Racing(qr) ==
  IF ~IsUndefined(FindActive(qr)) /\ invitation.status = "pending" THEN Unsaved ELSE {}

rsvpFrame == <<composerVars, escapeVars, pairVars, galleryVars, retryVars>>

\* POST /submit/:qrCode up to the lookup
SubmitArrive ==
  /\ Len(reqs) < MaxRequests
  /\ \E b \in SubmitBodies :
       reqs' = Append(reqs,
                 IF StatusInvalid(b)
                 THEN Finish(Request("submit", b, "found", Undefined, 0,
                                     Seen(b.qrCode), {}), 400)
                 ELSE Request("submit", b, "found", FindActive(b.qrCode), 0,
                              Seen(b.qrCode), Racing(b.qrCode)))
  /\ UNCHANGED <<invitation, rsvpFrame>>

\* POST /submit/:qrCode from the lookup to the end of submitRSVP
SubmitSave(r) ==
  /\ r \in 1..Len(reqs)
  /\ reqs[r].kind = "submit" /\ reqs[r].pc = "found"
  /\ LET code == SubmitDecision(reqs[r].doc, reqs[r].body)
     IN  IF ~ProceedsToSave(reqs[r].doc, code)
         THEN /\ reqs' = [reqs EXCEPT ![r] = Finish(reqs[r], code)]
              /\ UNCHANGED invitation
         ELSE LET before == reqs[r].doc[1]
                  after == submitRSVP(before, rsvpData(reqs[r].body), r)
              IN  IF VersionError(invitation, before, after)
                  THEN /\ reqs' = [reqs EXCEPT ![r] = Finish(reqs[r], 500)]
                       /\ UNCHANGED invitation
                  ELSE LET saved == [reqs[r] EXCEPT
                                       !.pc = "saved",
                                       !.doc = Some([after EXCEPT !.v = invitation'.v]),
                                       !.writes = reqs[r].writes + 1]
                       IN  /\ invitation' = Save(invitation, before, after)
                           /\ reqs' = [reqs EXCEPT ![r] = IF code = 200 THEN saved
                                                          ELSE Finish(saved, code)]
  /\ UNCHANGED rsvpFrame

\* lines 78-80: if (!invitation.isOpened) await invitation.markAsOpened(...)
SubmitMark(r) ==
  /\ r \in 1..Len(reqs)
  /\ reqs[r].kind = "submit" /\ reqs[r].pc = "saved"
  /\ IF reqs[r].doc[1].isOpened
     THEN /\ reqs' = [reqs EXCEPT ![r] = Finish(reqs[r], 200)]
          /\ UNCHANGED invitation
     ELSE LET before == reqs[r].doc[1]
              after == markAsOpened(before, r)
          IN  /\ invitation' = Save(invitation, before, after)
              /\ reqs' = [reqs EXCEPT ![r].pc = "marked", ![r].doc = Some(after),
                                      ![r].writes = reqs[r].writes + 1]
  /\ UNCHANGED rsvpFrame

\* lines 82-92: the success answer after markAsOpened
SubmitRespond(r) ==
  /\ r \in 1..Len(reqs)
  /\ reqs[r].kind = "submit" /\ reqs[r].pc = "marked"
  /\ reqs' = [reqs EXCEPT ![r] = Finish(reqs[r], 200)]
  /\ UNCHANGED <<invitation, rsvpFrame>>

\* GET /invitations/qr/:qrCode up to the lookup
OpenArrive ==
  /\ Len(reqs) < MaxRequests
  /\ \E qr \in {"q"} :
       reqs' = Append(reqs, Request("open", [qrCode |-> qr], "found",
                                    FindActive(qr), 0, Seen(qr), {}))
  /\ UNCHANGED <<invitation, rsvpFrame>>

\* GET /invitations/qr/:qrCode after the lookup: markAsOpened is not awaited
OpenRespond(r) ==
  /\ r \in 1..Len(reqs)
  /\ reqs[r].kind = "open" /\ reqs[r].pc = "found"
  /\ reqs' = IF IsUndefined(reqs[r].doc)
             THEN [reqs EXCEPT ![r] = Finish(reqs[r], 404)]
             ELSE IF reqs[r].doc[1].isOpened
             THEN [reqs EXCEPT ![r] = Finish(reqs[r], 200)]
             ELSE [reqs EXCEPT ![r].pc = "marking", ![r].res = 200]
  /\ UNCHANGED <<invitation, rsvpFrame>>

\* the save() that markAsOpened started reaches the database
OpenWrite(r) ==
  /\ r \in 1..Len(reqs)
  /\ reqs[r].kind = "open" /\ reqs[r].pc = "marking"
  /\ LET before == reqs[r].doc[1]
         after == markAsOpened(before, r)
     IN  /\ invitation' = Save(invitation, before, after)
         /\ reqs' = [reqs EXCEPT ![r] = Finish([reqs[r] EXCEPT !.writes = @ + 1], 200)]
  /\ UNCHANGED rsvpFrame

HostRsvpBodies ==
  { [status |-> Some("pending"), attendeeCount |-> Undefined],
    [status |-> Undefined, attendeeCount |-> Some(2)] }

\* PUT /rsvp/update/:id by the host who created the invitation
HostRsvpUpdate ==
  /\ \E b \in HostRsvpBodies :
       LET after == [invitation EXCEPT
                       !.status = IF IsUndefined(b.status) THEN @ ELSE b.status[1],
                       !.attendeeCount = IF IsUndefined(b.attendeeCount) THEN @
                                         ELSE b.attendeeCount[1]]
       IN  invitation' = Save(invitation, invitation, after)
  /\ UNCHANGED <<reqs, rsvpFrame>>

\* PUT /invitations/:id by the host who created the invitation
HostInvitationUpdate ==
  /\ \E isActive \in BOOLEAN :
       invitation' = Save(invitation, invitation, [invitation EXCEPT !.isActive = isActive])
  /\ UNCHANGED <<reqs, rsvpFrame>>

InitRsvp ==
  /\ RsvpIdle
  /\ GalleryIdle
  /\ RetryIdle
  /\ ComposerIdle
  /\ EscapeIdle
  /\ PairIdle

NextRsvp ==
  \/ SubmitArrive
  \/ \E r \in 1..MaxRequests : SubmitSave(r)
  \/ \E r \in 1..MaxRequests : SubmitMark(r)
  \/ \E r \in 1..MaxRequests : SubmitRespond(r)
  \/ OpenArrive
  \/ \E r \in 1..MaxRequests : OpenRespond(r)
  \/ \E r \in 1..MaxRequests : OpenWrite(r)
  \/ HostRsvpUpdate
  \/ HostInvitationUpdate

SpecRsvp == InitRsvp /\ [][NextRsvp]_vars

\* the submits whose lookup came when the invitation was already answered
LaterSubmits ==
  {r \in 1..Len(reqs) : /\ reqs[r].kind = "submit"
                        /\ ~IsUndefined(reqs[r].seen)
                        /\ reqs[r].seen[1].answered}

\* C15 as stated: a public submit that arrives when the invitation is
\* already answered is answered 400 and writes nothing.
LaterSubmitAnswered400 ==
  \A r \in LaterSubmits :
    /\ reqs[r].writes = 0
    /\ reqs[r].res \in {0, 400}
    /\ reqs[r].pc = "done" => reqs[r].res = 400

\* C15: a public submit that arrives when the invitation is already
\* answered writes nothing and is answered 400, or 404 if the invitation
\* was inactive when the submit looked it up.
LaterSubmitRefused ==
  \A r \in LaterSubmits :
    /\ reqs[r].writes = 0
    /\ \/ reqs[r].res \in {0, 400}
       \/ reqs[r].res = 404 /\ ~reqs[r].seen[1].isActive
    /\ reqs[r].pc = "done" => reqs[r].res # 0

LaterSubmitRefusedWitness ==
  /\ Len(reqs) = 2
  /\ reqs[1].kind = "submit" /\ reqs[1].res = 200
  /\ 2 \in LaterSubmits
  /\ reqs[2].seen[1].isActive
  /\ reqs[2].res = 400
  /\ invitation.respondedBy = Some(1)

\* C16: of two public submits that both loaded the pending invitation before
\* either saved, at most one is answered 200, and when both are answered the
\* stored RSVP carries the stamp of the one answered 200.
OneWinnerAmongConcurrentSubmits ==
  \A r2 \in 1..Len(reqs) : \A r1 \in reqs[r2].racing :
    /\ ~(reqs[r1].res = 200 /\ reqs[r2].res = 200)
    /\ (reqs[r1].res = 200 /\ reqs[r2].res \notin {0, 200})
          => invitation.respondedBy = Some(r1)
    /\ (reqs[r2].res = 200 /\ reqs[r1].res \notin {0, 200})
          => invitation.respondedBy = Some(r2)

\* C17: a public submit answered 400 or 404 has written nothing, and the
\* step that answers it leaves the stored invitation as it is.
RejectedSubmitLeavesInvitation ==
  [][\A r \in 1..Len(reqs') :
       (reqs'[r].kind = "submit" /\ reqs'[r].res \in {400, 404})
         => /\ reqs'[r].writes = 0
            /\ (r > Len(reqs) \/ reqs[r].res = 0) => invitation' = invitation]_vars

RejectedSubmitWitness ==
  /\ Len(reqs) = 2
  /\ reqs[1].kind = "submit" /\ reqs[1].res = 404 /\ reqs[1].writes = 0
  /\ reqs[2].kind = "submit" /\ reqs[2].res = 400 /\ reqs[2].writes = 0
  /\ ~reqs[2].seen[1].answered /\ reqs[2].seen[1].isActive
  /\ invitation.respondedBy = <<>>

\* C18: the save of a not_attending submit stores attendeeCount 0, no guest
\* names and empty email and phone.
NotAttendingStoresEmptyRsvp ==
  [][\A r \in 1..Len(reqs) :
       ( /\ reqs[r].kind = "submit"
         /\ reqs[r].pc = "found"
         /\ reqs'[r].pc = "saved"
         /\ reqs[r].body.status = Some("not_attending") )
       => /\ invitation'.attendeeCount = 0
          /\ invitation'.guestNames = <<>>
          /\ invitation'.email = Some(<<>>)
          /\ invitation'.phone = Some(<<>>)]_vars

\* C19: once isOpened is stored as true it stays true and the stored
\* opening stamp is never replaced.
OpenedStampKept ==
  [][invitation.isOpened =>
       invitation'.isOpened /\ invitation'.openedBy = invitation.openedBy]_vars

----------------------------------------------------------------------------
(* withRetry and rateLimit of src/services/googleDriveService.js.  Time is *)
(* in milliseconds; a timer fires exactly when its delay has passed.  The  *)
(* operation settles: it returns a value or throws an error with a code.   *)
(* Values and errors carry the number of the invocation they come from.    *)

rateLimitDelay == 200

maxRetries == 3

retryDelay == 2000

\* Date.now() when withRetry is called, and lastRequestTime of the service then
LastRequestTimes == {0, 900, 1000}

\* what one invocation of the operation does: 0 when it returns a value,
\* else the code of the error it throws
OperationOutcomes == {0, 429, 500, 404}

\* how long one invocation takes
Durations == {0, 150}

ShouldRetryInclusive(error, retryCount) ==
  error.code = 429 /\ retryCount <= maxRetries

\* error.code === 429 && retryCount < this.maxRetries
ShouldRetry(error, retryCount) ==
  error.code = 429 /\ retryCount < maxRetries

retryFrame == <<composerVars, escapeVars, pairVars, galleryVars, rsvpVars, limiter, driveCall>>

InitRetry ==
  /\ retry \in {[NoRetry EXCEPT !.now = 1000, !.lastRequestTime = t] :
                  t \in LastRequestTimes}
  /\ limiter = NoLimiter
  /\ driveCall = NoDriveCall
  /\ RsvpIdle
  /\ GalleryIdle
  /\ ComposerIdle
  /\ EscapeIdle
  /\ PairIdle

\* withRetry(operation): retryCount = 0
WithRetryCall ==
  /\ retry.pc = "idle"
  /\ retry' = [retry EXCEPT !.pc = "rateLimit", !.retryCount = 0]
  /\ UNCHANGED retryFrame

\* await this.rateLimit()
RateLimit ==
  /\ retry.pc = "rateLimit"
  /\ LET timeSinceLastRequest == retry.now - retry.lastRequestTime
         wake == IF timeSinceLastRequest < rateLimitDelay
                 THEN retry.now + (rateLimitDelay - timeSinceLastRequest)
                 ELSE retry.now
     IN  retry' = [retry EXCEPT !.pc = "operation", !.now = wake,
                                !.lastRequestTime = wake]
  /\ UNCHANGED retryFrame

\* return await operation(), and the catch block up to its await or throw
Operation ==
  /\ retry.pc = "operation"
  /\ \E o \in OperationOutcomes, t \in Durations :
       LET n == Len(retry.invocations) + 1
           ran == [retry EXCEPT !.invocations = Append(retry.invocations, o),
                                !.now = retry.now + t]
           error == [code |-> o, of |-> n]
       IN  retry' =
             IF o = 0
             THEN [ran EXCEPT !.pc = "done",
                              !.result = <<[kind |-> "returned", of |-> n]>>]
             ELSE IF ShouldRetry(error, retry.retryCount)
             THEN [ran EXCEPT !.pc = "backoff"]
             ELSE [ran EXCEPT !.pc = "done",
                              !.result = <<[kind |-> "thrown", error |-> error]>>]
  /\ UNCHANGED retryFrame

BackoffDelayLinear(retryCount) ==
  retryDelay * (retryCount + 1)

\* const delay = this.retryDelay * Math.pow(2, retryCount)
BackoffDelay(retryCount) ==
  retryDelay * 2^retryCount

\* the backoff timer, then return this.withRetry(operation, retryCount + 1)
Backoff ==
  /\ retry.pc = "backoff"
  /\ LET delay == BackoffDelay(retry.retryCount)
     IN  retry' = [retry EXCEPT !.pc = "rateLimit",
                                !.waits = Append(retry.waits, delay),
                                !.now = retry.now + delay,
                                !.retryCount = retry.retryCount + 1]
  /\ UNCHANGED retryFrame

NextRetry ==
  \/ WithRetryCall
  \/ RateLimit
  \/ Operation
  \/ Backoff

SpecRetry == InitRetry /\ [][NextRetry]_vars

\* timers fire and the operation settles
SpecRetryFair == SpecRetry /\ WF_vars(NextRetry)

\* the call has settled with what the last invocation of the operation did
SettledWithLast ==
  LET n == Len(retry.invocations)
  IN  /\ n >= 1
      /\ retry.result =
           IF retry.invocations[n] = 0
           THEN <<[kind |-> "returned", of |-> n]>>
           ELSE <<[kind |-> "thrown",
                   error |-> [code |-> retry.invocations[n], of |-> n]]>>

\* C20: withRetry invokes the operation at most maxRetries + 1 = 4 times,
\* it always settles, and it settles with the value the last invocation
\* returned or the error the last invocation threw.
WithRetryBoundedAndSettles ==
  /\ [](Len(retry.invocations) <= maxRetries + 1 /\ maxRetries + 1 = 4)
  /\ [](retry.pc = "done" => SettledWithLast)
  /\ [](retry.pc # "done" => retry.result = <<>>)
  /\ <>(retry.pc = "done")

WithRetryWitness ==
  /\ retry.pc = "done"
  /\ retry.invocations = <<429, 429, 429, 429>>
  /\ retry.result = <<[kind |-> "thrown", error |-> [code |-> 429, of |-> 4]]>>
  /\ retry.lastRequestTime = 1100 + 2000 + 150 + 4000 + 8000

\* the invocations before the last one each threw 429, and the waits made so
\* far are 2000, 4000, 8000 in this order, one after each of them
RetriesFollow429 ==
  LET n == Len(retry.invocations)
      w == Len(retry.waits)
  IN  /\ \A i \in 1..(n - 1) : retry.invocations[i] = 429
      /\ \A k \in 0..(w - 1) : retry.waits[k + 1] = 2000 * 2^k
      /\ w <= 3
      /\ w = IF retry.pc \in {"backoff", "done"} THEN n - 1 ELSE n

\* an error with another code ends the call at once with that error
OtherErrorRethrown ==
  LET n == Len(retry.invocations)
  IN  (n >= 1 /\ retry.invocations[n] \notin {0, 429}) =>
        /\ retry.pc = "done"
        /\ retry.result = <<[kind |-> "thrown",
                             error |-> [code |-> retry.invocations[n],
                                        of |-> n]]>>

\* C21: withRetry invokes the operation again only after an error with code
\* 429; retry k (k = 0, 1, 2) comes after a timer of 2000 * 2^k ms, during
\* which the clock advances by that much and the operation does not run; an
\* error with another code is rethrown after its attempt, with no wait and
\* no further attempt.
RetryOnlyAfter429WithBackoff ==
  /\ [](RetriesFollow429 /\ OtherErrorRethrown)
  /\ [][/\ Len(retry'.invocations) > Len(retry.invocations) /\
           Len(retry.invocations) >= 1
             => retry.invocations[Len(retry.invocations)] = 429
        /\ Len(retry'.waits) > Len(retry.waits)
             => /\ retry.pc = "backoff"
                /\ retry'.invocations = retry.invocations
                /\ retry'.now - retry.now = 2000 * 2^retry.retryCount
                /\ retry.retryCount = Len(retry.waits)
        /\ retry.pc = "done" => retry' = retry]_vars

RetryOnlyAfter429Witness ==
  /\ retry.pc = "done"
  /\ retry.invocations = <<429, 429, 429, 500>>
  /\ retry.waits = <<2000, 4000, 8000>>
  /\ retry.result = <<[kind |-> "thrown", error |-> [code |-> 500, of |-> 4]]>>

----------------------------------------------------------------------------
(* rateLimit() of the one GoogleDriveService instance the module exports,   *)
(* called by several requests whose handlers interleave at their awaits.    *)
(* A caller that has to wait holds a timer; lastRequestTime is written when *)
(* the caller resumes, with the clock of that moment, and the caller's      *)
(* Drive operation starts then.                                             *)

MaxCallers == 3

\* the clock stops advancing on its own here
MaxClock == 1400

\* what the clock advances by between two events
Ticks == {50, 200}

limiterFrame == <<composerVars, escapeVars, pairVars, galleryVars, rsvpVars, retry, driveCall>>

InitLimiter ==
  /\ limiter \in {[NoLimiter EXCEPT !.now = 1000, !.lastRequestTime = t] :
                    t \in LastRequestTimes}
  /\ retry = NoRetry
  /\ driveCall = NoDriveCall
  /\ RsvpIdle
  /\ GalleryIdle
  /\ ComposerIdle
  /\ EscapeIdle
  /\ PairIdle

Waiting == {c \in 1..Len(limiter.callers) : limiter.callers[c].pc = "waiting"}

Released == {c \in 1..Len(limiter.callers) : limiter.callers[c].pc = "released"}

\* rateLimit() from its first line to its await, or to its end when
\* timeSinceLastRequest >= rateLimitDelay
RateLimitEnter ==
  /\ Len(limiter.callers) < MaxCallers
  /\ LET now == limiter.now
         timeSinceLastRequest == now - limiter.lastRequestTime
     IN  limiter' =
           IF timeSinceLastRequest < rateLimitDelay
           THEN [limiter EXCEPT !.callers =
                   Append(@, [pc |-> "waiting",
                              wake |-> now + (rateLimitDelay - timeSinceLastRequest),
                              start |-> 0])]
           ELSE [limiter EXCEPT !.lastRequestTime = now,
                                !.callers =
                   Append(@, [pc |-> "released", wake |-> now, start |-> now])]
  /\ UNCHANGED limiterFrame

\* the timer of a waiting caller fires: this.lastRequestTime = Date.now()
RateLimitResume(c) ==
  /\ c \in Waiting
  /\ limiter.callers[c].wake = limiter.now
  /\ limiter' = [limiter EXCEPT !.lastRequestTime = limiter.now,
                                !.callers[c].pc = "released",
                                !.callers[c].start = limiter.now]
  /\ UNCHANGED limiterFrame

\* time passes, up to the next timer
ClockAdvance ==
  /\ \E d \in Ticks :
       LET due == {limiter.callers[c].wake : c \in Waiting}
           t == limiter.now + d
           next == IF \E w \in due : w < t
                   THEN CHOOSE w \in due : \A v \in due : w <= v
                   ELSE t
       IN  /\ next <= MaxClock
           /\ \A w \in due : limiter.now < w
           /\ limiter' = [limiter EXCEPT !.now = next]
  /\ UNCHANGED limiterFrame

NextLimiter ==
  \/ RateLimitEnter
  \/ \E c \in 1..MaxCallers : RateLimitResume(c)
  \/ ClockAdvance

SpecLimiter == InitLimiter /\ [][NextLimiter]_vars

\* C22: any two operations released by rateLimit() start at least
\* rateLimitDelay = 200 ms apart, whatever the number of callers inside
\* rateLimit() at a time.
ReleasesSpaced ==
  \A c1 \in Released, c2 \in Released :
    c1 # c2 =>
      \/ limiter.callers[c2].start - limiter.callers[c1].start >= rateLimitDelay
      \/ limiter.callers[c1].start - limiter.callers[c2].start >= rateLimitDelay

----------------------------------------------------------------------------
(* uploadFile of src/services/googleDriveService.js: withRetry around an    *)
(* operation that creates the file and then, for a public file, calls       *)
(* setPublicPermissions, which is withRetry around permissions.create.  A   *)
(* Drive request answers at once; it succeeds (0) or throws an error with a *)
(* code.  outer and inner are the retryCount of the two withRetry frames.   *)

\* what one Drive request answers
DriveAnswers == {0, 429, 500}

driveFrame == <<composerVars, escapeVars, pairVars, galleryVars, rsvpVars, retry, limiter>>

InitDrive ==
  /\ driveCall \in {[NoDriveCall EXCEPT !.now = 1000, !.lastRequestTime = t] :
                      t \in LastRequestTimes}
  /\ retry = NoRetry
  /\ limiter = NoLimiter
  /\ RsvpIdle
  /\ GalleryIdle
  /\ ComposerIdle
  /\ EscapeIdle
  /\ PairIdle

\* when a caller that enters rateLimit() alone leaves it
ReleaseTime(now, lastRequestTime) ==
  LET timeSinceLastRequest == now - lastRequestTime
  IN  IF timeSinceLastRequest < rateLimitDelay
      THEN now + (rateLimitDelay - timeSinceLastRequest)
      ELSE now

\* the call after await this.rateLimit() and one Drive request
Requested(call) ==
  LET t == ReleaseTime(call.now, call.lastRequestTime)
  IN  [call EXCEPT !.now = t, !.lastRequestTime = t, !.requests = @ + 1]

\* the catch block of the withRetry frame of uploadFile
OuterCatch(call, error) ==
  IF ShouldRetry(error, call.outer)
  THEN [call EXCEPT !.pc = "outerBackoff"]
  ELSE [call EXCEPT !.pc = "done",
                    !.result = <<[kind |-> "thrown", code |-> error.code]>>]

\* uploadFile(fileBuffer, fileName, folderId, mimeType, isPublic)
UploadFileCall ==
  /\ driveCall.pc = "idle"
  /\ \E isPublic \in BOOLEAN :
       driveCall' = [driveCall EXCEPT !.pc = "create", !.isPublic = isPublic]
  /\ UNCHANGED driveFrame

\* rateLimit(), drive.files.create, and what follows up to the next await
FilesCreate ==
  /\ driveCall.pc = "create"
  /\ \E o \in DriveAnswers :
       LET call == Requested(driveCall)
       IN  driveCall' =
             IF o = 0
             THEN IF call.isPublic
                  THEN [call EXCEPT !.created = @ + 1, !.pc = "permissions",
                                    !.inner = 0]
                  ELSE [call EXCEPT !.created = @ + 1, !.pc = "done",
                                    !.result = <<[kind |-> "returned"]>>]
             ELSE OuterCatch(call, [code |-> o])
  /\ UNCHANGED driveFrame

\* setPublicPermissions: rateLimit(), drive.permissions.create, and the
\* catch blocks the error passes through
PermissionsCreate ==
  /\ driveCall.pc = "permissions"
  /\ \E o \in DriveAnswers :
       LET call == Requested(driveCall)
           error == [code |-> o]
       IN  driveCall' =
             IF o = 0
             THEN [call EXCEPT !.pc = "done",
                               !.result = <<[kind |-> "returned"]>>]
             ELSE IF ShouldRetry(error, call.inner)
             THEN [call EXCEPT !.pc = "innerBackoff"]
             ELSE OuterCatch(call, error)
  /\ UNCHANGED driveFrame

\* the timer of setPublicPermissions' withRetry
InnerBackoff ==
  /\ driveCall.pc = "innerBackoff"
  /\ driveCall' = [driveCall EXCEPT !.pc = "permissions",
                                    !.now = @ + BackoffDelay(driveCall.inner),
                                    !.inner = @ + 1]
  /\ UNCHANGED driveFrame

\* the timer of uploadFile's withRetry; the operation then runs again
OuterBackoff ==
  /\ driveCall.pc = "outerBackoff"
  /\ driveCall' = [driveCall EXCEPT !.pc = "create",
                                    !.now = @ + BackoffDelay(driveCall.outer),
                                    !.outer = @ + 1]
  /\ UNCHANGED driveFrame

NextDrive ==
  \/ UploadFileCall
  \/ FilesCreate
  \/ PermissionsCreate
  \/ InnerBackoff
  \/ OuterBackoff

SpecDrive == InitDrive /\ [][NextDrive]_vars

\* C23: one call to uploadFile creates at most one file in Drive, whatever
\* the Drive requests answer, 429 answers to the permission request included.
UploadFileCreatesAtMostOne ==
  driveCall.created <= 1

----------------------------------------------------------------------------
(* Requests for one Media document, DELETE /:id and PUT /:id/approve of     *)
(* src/routes/media.js, next to an upload to the same album.  Each request  *)
(* is cut at its awaits: the lookup, the write to the Media collection,     *)
(* countDocuments, and the save() of the album inside updateMediaCount.     *)
(* The album of the stored Media documents is album 1.                      *)

MaxMediaRequests == 2

\* a Media document as an earlier upload left it
StoredMedia(id) ==
  [id |-> id, album |-> 1, originalName |-> id, mimeType |-> "image/jpeg",
   size |-> 1, mediaType |-> "image", uploadedBy |-> <<"A", "n", "a">>,
   isApproved |-> TRUE]

\* ids a request names: the two stored documents and one that does not exist
MediaIds == {1, 2, 3}

MediaUsers == {"anonymous", "host"}

\* req.body.isApproved
ApproveBodies == {Undefined, Some(TRUE), Some(FALSE)}

\* the forms of the upload that runs next to the requests
CountForms == {<<GoodFile>>, <<[mimetype |-> "application/pdf", size |-> 1]>>}

\* Media.findById(id)
FindMediaById(id) ==
  IF \E j \in 1..Len(media) : media[j].id = id
  THEN Some(media[CHOOSE j \in 1..Len(media) : media[j].id = id])
  ELSE Undefined

\* this.model('Media').countDocuments({ album: this._id })
CountDocuments(a) == Cardinality({j \in 1..Len(media) : media[j].album = a})

\* the Media collection after the document with this id is deleted
RECURSIVE Without(_, _)
Without(docs, id) ==
  IF docs = <<>> THEN <<>>
  ELSE IF Head(docs).id = id THEN Without(Tail(docs), id)
  ELSE <<Head(docs)>> \o Without(Tail(docs), id)

\* the Media collection after save() wrote isApproved of the document
WithApproval(docs, id, b) ==
  [j \in 1..Len(docs) |->
     IF docs[j].id = id THEN [docs[j] EXCEPT !.isApproved = b] ELSE docs[j]]

MediaRequest(kind, u, id, b, at, album, res) ==
  [kind |-> kind, user |-> u, id |-> id, isApproved |-> b, pc |-> at,
   album |-> album, count |-> 0, res |-> res]

mediaFrame == <<composerVars, escapeVars, pairVars, up, lastOp, rsvpVars, retryVars>>

\* DELETE /:id up to Media.findById
DeleteMediaArrive ==
  /\ Len(mreqs) < MaxMediaRequests
  /\ \E u \in MediaUsers, id \in MediaIds :
       LET found == FindMediaById(id)
       IN  mreqs' = Append(mreqs,
             IF ~auth(u) THEN MediaRequest("delete", u, 0, Undefined, "done", 0, 401)
             ELSE IF IsUndefined(found)
             THEN MediaRequest("delete", u, id, Undefined, "done", 0, 404)
             ELSE MediaRequest("delete", u, id, Undefined, "loaded", found[1].album, 0))
  /\ UNCHANGED <<albums, media, mediaFrame>>

\* PUT /:id/approve up to Media.findById
ApproveMediaArrive ==
  /\ Len(mreqs) < MaxMediaRequests
  /\ \E u \in MediaUsers, id \in MediaIds, b \in ApproveBodies :
       LET found == FindMediaById(id)
       IN  mreqs' = Append(mreqs,
             IF ~auth(u) THEN MediaRequest("approve", u, 0, Undefined, "done", 0, 401)
             ELSE IF IsUndefined(b)
             THEN MediaRequest("approve", u, 0, Undefined, "done", 0, 400)
             ELSE IF IsUndefined(found)
             THEN MediaRequest("approve", u, id, b, "done", 0, 404)
             ELSE MediaRequest("approve", u, id, b, "loaded", found[1].album, 0))
  /\ UNCHANGED <<albums, media, mediaFrame>>

\* the Drive deletions, whose failures are caught, then media.deleteOne()
DeleteMediaOne(r) ==
  /\ r \in 1..Len(mreqs)
  /\ mreqs[r].pc = "loaded"
  /\ mreqs[r].kind = "delete"
  /\ media' = Without(media, mreqs[r].id)
  /\ mreqs' = [mreqs EXCEPT ![r].pc = "written"]
  /\ UNCHANGED <<albums, mediaFrame>>

\* media.isApproved = isApproved; await media.save(): the update finds no
\* document when the document was deleted meanwhile, and save() rejects
ApproveMediaSave(r) ==
  /\ r \in 1..Len(mreqs)
  /\ mreqs[r].pc = "loaded"
  /\ mreqs[r].kind = "approve"
  /\ IF IsUndefined(FindMediaById(mreqs[r].id))
     THEN /\ media' = media
          /\ mreqs' = [mreqs EXCEPT ![r].pc = "done", ![r].res = 500]
     ELSE /\ media' = WithApproval(media, mreqs[r].id, mreqs[r].isApproved[1])
          /\ mreqs' = [mreqs EXCEPT ![r].pc = "written"]
  /\ UNCHANGED <<albums, mediaFrame>>

\* Album.findById(media.album), then updateMediaCount up to countDocuments
MediaCount(r) ==
  /\ r \in 1..Len(mreqs)
  /\ mreqs[r].pc = "written"
  /\ mreqs' = [mreqs EXCEPT ![r].pc = "counted",
                            ![r].count = CountDocuments(mreqs[r].album)]
  /\ UNCHANGED <<albums, media, mediaFrame>>

\* updateMediaCount: this.mediaCount = count, save(); then the answer
MediaSaveCount(r) ==
  /\ r \in 1..Len(mreqs)
  /\ mreqs[r].pc = "counted"
  /\ albums' = [albums EXCEPT ![mreqs[r].album].mediaCount = mreqs[r].count]
  /\ mreqs' = [mreqs EXCEPT ![r].pc = "done", ![r].res = 200, ![r].count = 0]
  /\ UNCHANGED <<media, mediaFrame>>

\* one approved public album holding the stored documents, its mediaCount
\* as the last request for it left it
InitCount ==
  /\ \E n \in 1..2 :
       /\ media = [id \in 1..n |-> StoredMedia(id)]
       /\ albums = <<[AlbumDoc(Some("host"), TRUE, "approved", Undefined)
                        EXCEPT !.mediaCount = n]>>
  /\ mreqs = <<>>
  /\ up = NoUpload
  /\ lastOp = <<>>
  /\ ComposerIdle
  /\ EscapeIdle
  /\ PairIdle
  /\ RsvpIdle
  /\ RetryIdle

CountUploadArrive == GuestUploadArrive(CountForms, {Some(<<"A", "n", "a">>)}, {1})

NextCount ==
  \/ CountUploadArrive
  \/ UploadMulter
  \/ UploadHandleError
  \/ UploadLookup
  \/ UploadGate
  \/ UploadFile
  \/ UploadCount
  \/ UploadRespond
  \/ DeleteMediaArrive
  \/ ApproveMediaArrive
  \/ \E r \in 1..MaxMediaRequests :
       \/ DeleteMediaOne(r)
       \/ ApproveMediaSave(r)
       \/ MediaCount(r)
       \/ MediaSaveCount(r)

SpecCount == InitCount /\ [][NextCount]_vars

\* no upload, approve or delete request is in flight
Quiet ==
  /\ up.pc \in {"idle", "done"}
  /\ \A r \in 1..Len(mreqs) : mreqs[r].pc = "done"

\* no request was answered 500
NoneFailed ==
  /\ up.res # 500
  /\ \A r \in 1..Len(mreqs) : mreqs[r].res # 500

----------------------------------------------------------------------------
(* What a guest is shown of an album whose media a host reviews: the        *)
(* requests PUT /media/:id/approve next to GET /albums/:id, for one public  *)
(* approved album holding the stored Media documents and one album a guest  *)
(* created that is still pending.                                           *)

InitView ==
  /\ media = [id \in 1..2 |-> StoredMedia(id)]
  /\ albums = <<[AlbumDoc(Some("host"), TRUE, "approved", Undefined)
                   EXCEPT !.mediaCount = 2],
                GuestAlbum(TRUE)>>
  /\ mreqs = <<>>
  /\ up = NoUpload
  /\ lastOp = <<>>
  /\ ComposerIdle
  /\ EscapeIdle
  /\ PairIdle
  /\ RsvpIdle
  /\ RetryIdle

NextView ==
  \/ ApproveMediaArrive
  \/ \E r \in 1..MaxMediaRequests :
       \/ ApproveMediaSave(r)
       \/ MediaCount(r)
       \/ MediaSaveCount(r)
  \/ GetAlbum

SpecView == InitView /\ [][NextView]_vars

\* C28: the media list that GET /albums/:id hands to a requester who is not
\* a host contains no Media document whose isApproved is false.
RejectedMediaHidden ==
  (HandedToNonHost /\ lastOp[1].route = "GET /albums/:id") =>
    \A m \in lastOp[1].media : m.isApproved

====
